---- MODULE Spec2Model ----
(***************************************************************************)
(* Trade-plan synthesis of the AI-Trading-ML backend:                      *)
(*   backend/app/core/advanced_analysis.py  (entry selection, TP ladder,   *)
(*                                           Fibonacci levels)             *)
(*   backend/app/agents/predict_agent.py    (predict_node, confidence,     *)
(*                                           risk level)                   *)
(*   backend/app/agents/ta_agent.py         (ta_node, market condition)    *)
(*   backend/app/agents/graph.py            (the workflow ta, news,        *)
(*                                           predict)                      *)
(*   backend/app/core/advanced_analysis.py  (pivot points, order blocks)   *)
(*                                                                         *)
(* Numbers.  Prices, ATR and Fibonacci levels are Python floats.  They are *)
(* modelled in fixed point: an integer counts ticks, Cent ticks make 0.01. *)
(* Inputs are drawn on a grid of 2 ticks (4 ticks where a stop is derived  *)
(* from the ATR) so that the products by 1.5 and 3.5 stay exact;           *)
(* recent high/low are drawn on a grid of 1000 ticks so that the Fibonacci *)
(* ratios (thousandths) stay exact.  round(x, 2) is Round2: nearest cent,  *)
(* exact ties to the even cent.  Risk-reward ratios are kept in tenths     *)
(* (35 is 3.5); confidences and RSI are integers.  Percentages are kept in *)
(* hundredths of a percent.  The pivot points alone are computed in binary *)
(* floating point of a small precision (RoundFloat), because their         *)
(* division by 3 rounds.                                                   *)
(***************************************************************************)
EXTENDS Integers, Sequences, FiniteSets, TLC

VARIABLES
    state,       \* the workflow state: timeframes, ta_data, news_data
    response,    \* per run: the parsed language-service prediction
    prediction,  \* per run: the record predict_node returns under "prediction"
    args,        \* arguments of the pure function under check
    result,      \* its return value
    node         \* the node of the workflow graph that runs next

vars == <<state, response, prediction, args, result, node>>

(***************************************************************************)
(* Encoding of Python values                                               *)
(***************************************************************************)
None == "None"

\* a call that has not happened, one that raised, one that returned
NotCalled == [status |-> "not_called"]

Raised(exc) == [status |-> "raised", exc |-> exc]

Return(value) == [status |-> "returned", value |-> value]

ZeroDivisionError == "ZeroDivisionError"

Unused == "unused"

Cent == 20

Abs(x) == IF x < 0 THEN 0 - x ELSE x

Max(a, b) == IF a >= b THEN a ELSE b

Min(a, b) == IF a <= b THEN a ELSE b

\* n/d rounded to the nearest integer, exact ties to the even integer
RoundHalfEven(n, d) ==
    LET nn == IF d < 0 THEN 0 - n ELSE n
        dd == Abs(d)
        q  == nn \div dd
        r  == nn % dd
    IN  IF 2 * r < dd THEN q
        ELSE IF 2 * r > dd THEN q + 1
        ELSE IF q % 2 = 0 THEN q ELSE q + 1

\* round(x, 2) on a tick count
Round2(x) == Cent * RoundHalfEven(x, Cent)

\* dict.get(key, default)
Get(d, key, default) == IF key \in DOMAIN d THEN d[key] ELSE default

EmptyDict == [k \in {} |-> None]

(***************************************************************************)
(* AdvancedAnalysis.calculate_multi_tp_levels                              *)
(***************************************************************************)
RrRatiosStrictHigh(market_condition, confidence) ==
    IF market_condition = "volatile" \/ confidence < 50 THEN <<20, 30>>
    ELSE IF market_condition = "trending" /\ confidence > 70 THEN <<20, 35, 50>>
    ELSE <<20, 30, 40>>

RrRatios(market_condition, confidence) ==
    IF market_condition = "volatile" \/ confidence < 50 THEN <<20, 30>>
    ELSE IF market_condition = "trending" /\ confidence >= 70 THEN <<20, 35, 50>>
    ELSE <<20, 30, 40>>

\* raw target of one ratio: entry + risk*rr (BULLISH), entry - risk*rr (else)
RawTarget(entry, risk, rr, direction) ==
    IF direction = "BULLISH" THEN entry + ((risk * rr) \div 10)
    ELSE entry - ((risk * rr) \div 10)

\* which Fibonacci extension, if any, replaces the raw target
SnapReasonInclusive(tp_price, atr, fib_levels) ==
    IF "fib_1272" \in DOMAIN fib_levels
       /\ Abs(tp_price - fib_levels["fib_1272"]) <= atr
    THEN "fib_1272"
    ELSE IF "fib_1618" \in DOMAIN fib_levels
            /\ Abs(tp_price - fib_levels["fib_1618"]) <= atr * 2
    THEN "fib_1618"
    ELSE "rr"

SnapReason(tp_price, atr, fib_levels) ==
    IF "fib_1272" \in DOMAIN fib_levels
       /\ Abs(tp_price - fib_levels["fib_1272"]) < atr
    THEN "fib_1272"
    ELSE IF "fib_1618" \in DOMAIN fib_levels
            /\ Abs(tp_price - fib_levels["fib_1618"]) < atr * 2
    THEN "fib_1618"
    ELSE "rr"

\* the target after the alignment with the Fibonacci extensions, unrounded
SnapTarget(tp_price, atr, fib_levels) ==
    LET reason == SnapReason(tp_price, atr, fib_levels)
    IN  IF reason = "rr" THEN tp_price ELSE fib_levels[reason]

\* one appended tp_levels entry; entry # 0
TpLevel(i, rr, entry, risk, direction, atr, fib_levels) ==
    LET raw      == RawTarget(entry, risk, rr, direction)
        tp_price == SnapTarget(raw, atr, fib_levels)
        gain     == IF direction = "BULLISH" THEN tp_price - entry
                    ELSE entry - tp_price
    IN  [level      |-> i,
         price      |-> Round2(tp_price),
         rr         |-> rr,
         reason     |-> SnapReason(raw, atr, fib_levels),
         percentage |-> RoundHalfEven(gain * 10000, entry)]

\* the list of TP levels; the percentage divides by entry and raises on 0
CalculateMultiTpLevels(entry, stop_loss, direction, market_condition, confidence, atr, fib_levels) ==
    LET risk      == Abs(entry - stop_loss)
        rr_ratios == RrRatios(market_condition, confidence)
    IN  IF entry = 0 THEN Raised(ZeroDivisionError)
        ELSE Return([i \in 1..Len(rr_ratios) |->
                 TpLevel(i, rr_ratios[i], entry, risk, direction, atr, fib_levels)])

(***************************************************************************)
(* Specification of calculate_multi_tp_levels as a pure function           *)
(***************************************************************************)
Directions == {"BULLISH", "BEARISH", "NEUTRAL"}

MarketConditions == {"volatile", "ranging", "trending", "unknown"}

TpEntries == {0, 2000, 2004}

TpStops == {1960, 2000, 2002, 2040}

TpAtrs == {0, 2, 40}

TpConfidences == {45, 50, 69, 70, 80}

TpFibMaps ==
    {EmptyDict,
     [k \in {"fib_1272"} |-> 2080],
     [k \in {"fib_1618"} |-> 2160],
     [k \in {"fib_1272", "fib_1618"} |-> IF k = "fib_1272" THEN 2080 ELSE 2100],
     [k \in {"fib_1272", "fib_1618"} |-> IF k = "fib_1272" THEN 1920 ELSE 1880]}

TpArgs ==
    [fn : {"calculate_multi_tp_levels"}, entry : TpEntries, stop_loss : TpStops,
     direction : Directions, market_condition : MarketConditions,
     confidence : TpConfidences, atr : TpAtrs, fib_levels : TpFibMaps]

InitTP ==
    /\ args \in TpArgs
    /\ result = NotCalled
    /\ state = Unused
    /\ response = Unused
    /\ prediction = Unused
    /\ node = Unused

CallMultiTp ==
    /\ args.fn = "calculate_multi_tp_levels"
    /\ result = NotCalled
    /\ result' = CalculateMultiTpLevels(args.entry, args.stop_loss, args.direction,
                                        args.market_condition, args.confidence,
                                        args.atr, args.fib_levels)
    /\ UNCHANGED <<state, response, prediction, args, node>>

NextTP == CallMultiTp

SpecTP == InitTP /\ [][NextTP]_vars

Returned == result.status = "returned"

(***************************************************************************)
(* Claims about calculate_multi_tp_levels (checked under SpecTP)           *)
(***************************************************************************)
\* prices of a TP list strictly ordered in the trade direction
StrictlyOrdered(tps, direction) ==
    \A i \in 1..(Len(tps) - 1) :
        IF direction = "BULLISH" THEN tps[i].price < tps[i + 1].price
        ELSE tps[i].price > tps[i + 1].price

\* C2: the returned take-profit prices are strictly increasing by level for
\* BULLISH and strictly decreasing for BEARISH, for every input, also after
\* targets have been snapped to Fibonacci extensions.
C2_TpStrictlyOrdered ==
    (Returned /\ args.direction \in {"BULLISH", "BEARISH"})
        => StrictlyOrdered(result.value, args.direction)

\* the schedule the claim C4 assigns to a regime
C4_Schedule ==
    IF args.market_condition = "volatile" \/ args.confidence < 50
    THEN <<20, 30>>
    ELSE IF args.market_condition = "trending" /\ args.confidence >= 70
    THEN <<20, 35, 50>>
    ELSE <<20, 30, 40>>

\* C4: the schedule is [2.0, 3.0] when volatile or confidence < 50, else
\* [2.0, 3.5, 5.0] when trending and confidence >= 70, else [2.0, 3.0, 4.0];
\* the returned list has one level per ratio, numbered 1..n in schedule order.
C4_ScheduleByRegime ==
    Returned =>
        /\ Len(result.value) = Len(C4_Schedule)
        /\ \A i \in 1..Len(C4_Schedule) :
              /\ result.value[i].level = i
              /\ result.value[i].rr = C4_Schedule[i]

\* C4 witness: a trending call at the confidence boundary 70 returned the
\* aggressive three-level ladder
C4_Witness ==
    /\ Returned
    /\ args.market_condition = "trending"
    /\ args.confidence = 70
    /\ Len(result.value) = 3
    /\ result.value[2].rr = 35

\* C5: with no Fibonacci levels and entry # stop_loss every level's price is
\* entry + |entry - stop_loss|*r (BULLISH) or entry - |entry - stop_loss|*r
\* (BEARISH), prices are strictly ordered in the trade direction and the
\* risk-reward ratios strictly increase along the list.
C5_RawLadder ==
    (/\ Returned
     /\ args.fib_levels = EmptyDict
     /\ args.entry # args.stop_loss
     /\ args.direction \in {"BULLISH", "BEARISH"})
        => /\ \A i \in 1..Len(result.value) :
                 result.value[i].price =
                     IF args.direction = "BULLISH"
                     THEN args.entry
                          + (Abs(args.entry - args.stop_loss) * result.value[i].rr) \div 10
                     ELSE args.entry
                          - (Abs(args.entry - args.stop_loss) * result.value[i].rr) \div 10
           /\ StrictlyOrdered(result.value, args.direction)
           /\ \A i \in 1..(Len(result.value) - 1) :
                 result.value[i].rr < result.value[i + 1].rr

\* the raw target of level i as the claim C6 states it
C6_Raw(i) ==
    IF args.direction = "BULLISH"
    THEN args.entry + (Abs(args.entry - args.stop_loss) * result.value[i].rr) \div 10
    ELSE args.entry - (Abs(args.entry - args.stop_loss) * result.value[i].rr) \div 10

\* the target the claim C6 selects for level i
C6_Selected(i) ==
    IF "fib_1272" \in DOMAIN args.fib_levels
       /\ Abs(C6_Raw(i) - args.fib_levels["fib_1272"]) < args.atr
    THEN args.fib_levels["fib_1272"]
    ELSE IF "fib_1618" \in DOMAIN args.fib_levels
            /\ Abs(C6_Raw(i) - args.fib_levels["fib_1618"]) < 2 * args.atr
    THEN args.fib_levels["fib_1618"]
    ELSE C6_Raw(i)

OrderBlock(type, high, low) ==
    [type |-> type, high |-> high, low |-> low,
     zone |-> (low + high) \div 2, strength |-> "high"]

Candidate(price, reason, confidence) ==
    [price |-> price, reason |-> reason, confidence |-> confidence]

\* the candidates of the order blocks, in list order (the for loop)
RECURSIVE OrderBlockCandidates(_, _)
OrderBlockCandidates(order_blocks, wanted) ==
    IF order_blocks = <<>> THEN <<>>
    ELSE (IF Head(order_blocks).type = wanted
          THEN <<Candidate(Head(order_blocks).zone, wanted \o " order block", 85)>>
          ELSE <<>>)
         \o OrderBlockCandidates(Tail(order_blocks), wanted)

\* entry_candidates as built by either branch, before the sort
EntryCandidates(current_price, direction, fib_levels, order_blocks, market_condition) ==
    LET wanted == IF direction = "BULLISH" THEN "bullish" ELSE "bearish"
        fib618 == IF "fib_618" \in DOMAIN fib_levels
                  THEN <<Candidate(fib_levels["fib_618"], "Fibonacci 0.618", 90)>>
                  ELSE <<>>
        fib500 == IF "fib_500" \in DOMAIN fib_levels
                  THEN <<Candidate(fib_levels["fib_500"], "Fibonacci 0.5", 75)>>
                  ELSE <<>>
        zones  == fib618 \o fib500 \o OrderBlockCandidates(order_blocks, wanted)
    IN  IF zones = <<>> \/ market_condition = "trending"
        THEN Append(zones, Candidate(current_price, "Immediate entry", 70))
        ELSE zones

\* insert c behind every element of the sorted list whose confidence is >= its own
RECURSIVE InsertByConfidence(_, _)
InsertByConfidence(sorted, c) ==
    IF sorted = <<>> THEN <<c>>
    ELSE IF Head(sorted).confidence >= c.confidence
         THEN <<Head(sorted)>> \o InsertByConfidence(Tail(sorted), c)
         ELSE <<c>> \o sorted

\* list.sort(key=confidence, reverse=True): descending and stable
RECURSIVE SortByConfidence(_)
SortByConfidence(candidates) ==
    IF candidates = <<>> THEN <<>>
    ELSE InsertByConfidence(
             SortByConfidence(SubSeq(candidates, 1, Len(candidates) - 1)),
             candidates[Len(candidates)])

CalculateOptimalEntryUnsorted(current_price, direction, fib_levels, order_blocks, atr, market_condition) ==
    LET entry_candidates ==
            EntryCandidates(current_price, direction, fib_levels, order_blocks,
                            market_condition)
    IN  IF entry_candidates # <<>> THEN entry_candidates[Len(entry_candidates)]
        ELSE Candidate(current_price, "Current market price", 60)

CalculateOptimalEntry(current_price, direction, fib_levels, order_blocks, atr, market_condition) ==
    LET entry_candidates ==
            SortByConfidence(EntryCandidates(current_price, direction, fib_levels,
                                             order_blocks, market_condition))
    IN  IF entry_candidates # <<>> THEN entry_candidates[1]
        ELSE Candidate(current_price, "Current market price", 60)

(***************************************************************************)
(* Specification of calculate_optimal_entry as a pure function             *)
(***************************************************************************)
MaxBlocks == 2

EntryPrices == {2000, 2100}

EntryFibMaps ==
    {EmptyDict,
     [k \in {"fib_618"} |-> 1900],
     [k \in {"fib_500"} |-> 1950],
     [k \in {"fib_618", "fib_500"} |-> IF k = "fib_618" THEN 1900 ELSE 1950]}

EntryBlocks ==
    {OrderBlock("bullish", 1820, 1780), OrderBlock("bullish", 1860, 1820),
     OrderBlock("bearish", 2220, 2180)}

\* the lists of at most n order blocks
BlockLists(n) == UNION {[1..k -> EntryBlocks] : k \in 0..n}

EntryArgs ==
    [fn : {"calculate_optimal_entry"}, current_price : EntryPrices,
     direction : Directions, fib_levels : EntryFibMaps,
     order_blocks : BlockLists(MaxBlocks), atr : {40},
     market_condition : MarketConditions]

InitEntry ==
    /\ args \in EntryArgs
    /\ result = NotCalled
    /\ state = Unused
    /\ response = Unused
    /\ prediction = Unused
    /\ node = Unused

CallOptimalEntry ==
    /\ args.fn = "calculate_optimal_entry"
    /\ result = NotCalled
    /\ result' = Return(CalculateOptimalEntry(args.current_price, args.direction,
                                              args.fib_levels, args.order_blocks,
                                              args.atr, args.market_condition))
    /\ UNCHANGED <<state, response, prediction, args, node>>

NextEntry == CallOptimalEntry

SpecEntry == InitEntry /\ [][NextEntry]_vars

(***************************************************************************)
(* Claims about calculate_optimal_entry (checked under SpecEntry)          *)
(***************************************************************************)
\* the order blocks of the list whose type matches the trade direction
C7_Matching ==
    {i \in 1..Len(args.order_blocks) :
        args.order_blocks[i].type =
            (IF args.direction = "BULLISH" THEN "bullish" ELSE "bearish")}

C8_TrendingImmediateEntry ==
    (Returned /\ args.market_condition = "trending") =>
        /\ result.value.price = args.current_price
        /\ result.value.confidence = 70

(***************************************************************************)
(* AdvancedAnalysis.calculate_fibonacci_levels; high - low is a multiple   *)
(* of 1000 ticks, the ratios are in thousandths                            *)
(***************************************************************************)
FibKeys ==
    {"fib_0", "fib_236", "fib_382", "fib_500", "fib_618", "fib_786", "fib_100",
     "fib_1272", "fib_1618", "fib_2618"}

FibOffsetFullRatio(key) ==
    CASE key = "fib_236" -> 236 [] key = "fib_382" -> 382 [] key = "fib_500" -> 500
      [] key = "fib_618" -> 618 [] key = "fib_786" -> 786
      [] key = "fib_1272" -> 1272 [] key = "fib_1618" -> 1618 [] key = "fib_2618" -> 2618
      [] OTHER -> 0

\* the offset diff * ratio each key applies to its anchor, in thousandths
FibOffset(key) ==
    CASE key = "fib_236" -> 236 [] key = "fib_382" -> 382 [] key = "fib_500" -> 500
      [] key = "fib_618" -> 618 [] key = "fib_786" -> 786
      [] key = "fib_1272" -> 272 [] key = "fib_1618" -> 618 [] key = "fib_2618" -> 1618
      [] OTHER -> 0

CalculateFibonacciLevelsNotInverted(high, low, trend) ==
    LET diff == high - low
        off(key) == (diff * FibOffset(key)) \div 1000
    IN  IF trend = "bullish"
        THEN [key \in FibKeys |->
                 CASE key = "fib_0" -> high
                   [] key = "fib_100" -> low
                   [] key \in {"fib_1272", "fib_1618", "fib_2618"} -> high + off(key)
                   [] OTHER -> high - off(key)]
        ELSE [key \in FibKeys |->
                 CASE key = "fib_0" -> high
                   [] key = "fib_100" -> low
                   [] key \in {"fib_1272", "fib_1618", "fib_2618"} -> low - off(key)
                   [] OTHER -> low + off(key)]

CalculateFibonacciLevels(high, low, trend) ==
    LET diff == high - low
        off(key) == (diff * FibOffset(key)) \div 1000
    IN  IF trend = "bullish"
        THEN [key \in FibKeys |->
                 CASE key = "fib_0" -> high
                   [] key = "fib_100" -> low
                   [] key \in {"fib_1272", "fib_1618", "fib_2618"} -> high + off(key)
                   [] OTHER -> high - off(key)]
        ELSE [key \in FibKeys |->
                 CASE key = "fib_0" -> low
                   [] key = "fib_100" -> high
                   [] key \in {"fib_1272", "fib_1618", "fib_2618"} -> low - off(key)
                   [] OTHER -> low + off(key)]

(***************************************************************************)
(* ta_agent: classify_market_condition and the ta_data record of ta_node   *)
(***************************************************************************)
ClassifyMarketConditionInclusive(analysis) ==
    LET atr   == Get(analysis, "atr", 0)
        trend == Get(analysis, "trend", "unknown")
        price == Get(analysis, "current_price", 0)
        above3     == price > 0 /\ atr * 100 >= 3 * price
        below1half == IF price > 0 THEN atr * 200 <= 3 * price ELSE TRUE
    IN  IF above3 THEN "volatile"
        ELSE IF trend = "sideways" /\ below1half THEN "ranging"
        ELSE IF trend \in {"bullish", "bearish"} THEN "trending"
        ELSE "unknown"

\* atr_percent = atr / price * 100 if price > 0 else 0, compared exactly
ClassifyMarketCondition(analysis) ==
    LET atr   == Get(analysis, "atr", 0)
        trend == Get(analysis, "trend", "unknown")
        price == Get(analysis, "current_price", 0)
        above3     == price > 0 /\ atr * 100 > 3 * price
        below1half == IF price > 0 THEN atr * 200 < 3 * price ELSE TRUE
    IN  IF above3 THEN "volatile"
        ELSE IF trend = "sideways" /\ below1half THEN "ranging"
        ELSE IF trend \in {"bullish", "bearish"} THEN "trending"
        ELSE "unknown"

\* multi_tf_analysis[tf] as ta_node stores it (the fields read downstream)
AnalysisRecord(trend, rsi, atr, current_price, recent_high, recent_low, order_blocks) ==
    [rsi |-> rsi, atr |-> atr, trend |-> trend, current_price |-> current_price,
     fibonacci |-> CalculateFibonacciLevels(recent_high, recent_low,
                       IF trend # "sideways" THEN trend ELSE "bullish"),
     order_blocks |-> order_blocks,
     recent_high |-> recent_high, recent_low |-> recent_low]

PrimaryTimeframeFirst(timeframes) == timeframes[1]

\* the primary timeframe ta_node picks from the requested list
PrimaryTimeframe(timeframes) ==
    IF Len(timeframes) > 1 THEN timeframes[(Len(timeframes) \div 2) + 1]
    ELSE timeframes[1]

\* the ta_data ta_node compiles from the analyses of the timeframes with candles
CompileTaData(timeframes, multi_tf_analysis) ==
    LET primary_tf       == PrimaryTimeframe(timeframes)
        primary_analysis == Get(multi_tf_analysis, primary_tf, EmptyDict)
    IN  [timeframes_analyzed      |-> DOMAIN multi_tf_analysis,
         primary_timeframe        |-> primary_tf,
         primary_analysis         |-> primary_analysis,
         multi_timeframe_analysis |-> multi_tf_analysis,
         market_condition         |-> ClassifyMarketCondition(primary_analysis)]

\* every ta_data ta_node can compile for the requested lists, when a non-empty
\* subset of the timeframes has candles, the primary one analysed as in
\* `primaries' and the others as in `others'
TaDatas(lists, primaries, others) ==
    UNION {
      UNION {
        {CompileTaData(timeframes, m) :
            m \in {f \in [fetched -> primaries \cup others] :
                     \A tf \in fetched :
                        f[tf] \in (IF tf = PrimaryTimeframe(timeframes)
                                   THEN primaries ELSE others)}}
        : fetched \in (SUBSET {timeframes[i] : i \in 1..Len(timeframes)}) \ {{}}}
      : timeframes \in lists}

(***************************************************************************)
(* predict_agent: calculate_confidence, assess_risk_level                  *)
(***************************************************************************)
Clamp(x, lo, hi) == Max(lo, Min(hi, x))

\* a factor that is absent costs its points
BonusOrPenalty(cond, points) == IF cond THEN points ELSE 0 - points

Bonus(cond, points) == IF cond THEN points ELSE 0

\* the multi-timeframe alignment test, for a required minimum of timeframes
Aligned(multi_tf, atLeast) ==
    /\ Cardinality(DOMAIN multi_tf) >= atLeast
    /\ \E t \in {"bullish", "bearish"} :
          \A tf \in DOMAIN multi_tf : Get(multi_tf[tf], "trend", None) = t

CalculateConfidenceAnyCount(ta_data, news_data, prediction_) ==
    LET primary          == Get(ta_data, "primary_analysis", EmptyDict)
        trend            == Get(primary, "trend", "unknown")
        rsi              == Get(primary, "rsi", 50)
        market_condition == Get(ta_data, "market_condition", "unknown")
        multi_tf         == Get(ta_data, "multi_timeframe_analysis", EmptyDict)
        news_sentiment   == Get(news_data, "sentiment", "neutral")
        news_impact      == Get(news_data, "news_impact", "minimal")
        direction        == Get(prediction_, "direction", "NEUTRAL")
    IN  Clamp(50
              + Bonus(trend \in {"bullish", "bearish"}, 10)
              + Bonus(rsi > 70 \/ rsi < 30, 5)
              + (IF market_condition = "trending" THEN 10
                 ELSE IF market_condition = "volatile" THEN 0 - 10 ELSE 0)
              + Bonus(Aligned(multi_tf, 1), 15)
              + Bonus((news_sentiment = "bullish" /\ direction = "BULLISH")
                      \/ (news_sentiment = "bearish" /\ direction = "BEARISH"), 10)
              + Bonus(news_impact \in {"high", "medium"}, 5),
              0, 100)

CalculateConfidence(ta_data, news_data, prediction_) ==
    LET primary          == Get(ta_data, "primary_analysis", EmptyDict)
        trend            == Get(primary, "trend", "unknown")
        rsi              == Get(primary, "rsi", 50)
        market_condition == Get(ta_data, "market_condition", "unknown")
        multi_tf         == Get(ta_data, "multi_timeframe_analysis", EmptyDict)
        news_sentiment   == Get(news_data, "sentiment", "neutral")
        news_impact      == Get(news_data, "news_impact", "minimal")
        direction        == Get(prediction_, "direction", "NEUTRAL")
    IN  Clamp(50
              + Bonus(trend \in {"bullish", "bearish"}, 10)
              + Bonus(rsi > 70 \/ rsi < 30, 5)
              + (IF market_condition = "trending" THEN 10
                 ELSE IF market_condition = "volatile" THEN 0 - 10 ELSE 0)
              + Bonus(Aligned(multi_tf, 2), 15)
              + Bonus((news_sentiment = "bullish" /\ direction = "BULLISH")
                      \/ (news_sentiment = "bearish" /\ direction = "BEARISH"), 10)
              + Bonus(news_impact \in {"high", "medium"}, 5),
              0, 100)

\* atr_percent > 3 for atr_percent = (atr / price) * 100, compared exactly
AtrPercentAbove3(atr, price) ==
    \/ price > 0 /\ atr * 100 > 3 * price
    \/ price < 0 /\ atr * 100 < 3 * price

AssessRiskLevelNewsIgnored(ta_data, news_data, confidence) ==
    LET market_condition == Get(ta_data, "market_condition", "unknown")
        primary          == Get(ta_data, "primary_analysis", EmptyDict)
        atr              == Get(primary, "atr", 0)
        price            == Get(primary, "current_price", 1)
    IN  IF price = 0 THEN "MEDIUM"
        ELSE IF market_condition = "volatile" \/ AtrPercentAbove3(atr, price) THEN "HIGH"
        ELSE IF confidence < 50 THEN "HIGH"
        ELSE IF confidence < 70 THEN "MEDIUM"
        ELSE "LOW"

\* a zero current_price raises inside the try block and the bare except
\* returns MEDIUM
AssessRiskLevel(ta_data, news_data, confidence) ==
    LET market_condition == Get(ta_data, "market_condition", "unknown")
        news_impact      == Get(news_data, "news_impact", "minimal")
        primary          == Get(ta_data, "primary_analysis", EmptyDict)
        atr              == Get(primary, "atr", 0)
        price            == Get(primary, "current_price", 1)
    IN  IF price = 0 THEN "MEDIUM"
        ELSE IF market_condition = "volatile" \/ AtrPercentAbove3(atr, price) THEN "HIGH"
        ELSE IF news_impact = "high" THEN "HIGH"
        ELSE IF confidence < 50 THEN "HIGH"
        ELSE IF confidence < 70 THEN "MEDIUM"
        ELSE "LOW"

(***************************************************************************)
(* Specification of calculate_confidence as a pure function                *)
(***************************************************************************)
MaxTimeframes == 2

Trends == {"bullish", "bearish", "sideways"}

\* the timeframe lists a request can carry, up to n timeframes
TimeframeLists(n) == {SubSeq(<<"15m", "1h", "4h", "1d">>, 1, k) : k \in 1..n}

\* (rsi, atr) of an analysis at price 2500: ATR 0.96%, 1.92% and 4% of price
RsiAtrPairs == {<<25, 24>>, <<50, 24>>, <<50, 48>>, <<50, 100>>, <<75, 100>>}

ConfAnalyses ==
    {AnalysisRecord(t, p[1], p[2], 2500, 3000, 2000, <<>>) :
        t \in Trends, p \in RsiAtrPairs}

\* news_data of the news node: no articles (no news_impact key), or analysed
NewsDatas ==
    {[k \in {"sentiment"} |-> "neutral"]}
    \cup [sentiment : {"bullish", "bearish", "neutral"},
          news_impact : {"high", "medium", "low", "minimal"}]

ConfArgs ==
    [fn : {"calculate_confidence"},
     ta_data : TaDatas(TimeframeLists(MaxTimeframes), ConfAnalyses, ConfAnalyses),
     news_data : NewsDatas,
     prediction : [direction : Directions]]

InitConf ==
    /\ args \in ConfArgs
    /\ result = NotCalled
    /\ state = Unused
    /\ response = Unused
    /\ prediction = Unused
    /\ node = Unused

CallConfidence ==
    /\ args.fn = "calculate_confidence"
    /\ result = NotCalled
    /\ result' = Return(CalculateConfidence(args.ta_data, args.news_data,
                                            args.prediction))
    /\ UNCHANGED <<state, response, prediction, args, node>>

NextConf == CallConfidence

SpecConf == InitConf /\ [][NextConf]_vars

(***************************************************************************)
(* Claims about calculate_confidence (checked under SpecConf)              *)
(***************************************************************************)
C10_Trends ==
    {args.ta_data.multi_timeframe_analysis[tf].trend :
        tf \in args.ta_data.timeframes_analyzed}

\* all analysed timeframes carry one and the same bullish or bearish trend
C10_AllAgree == C10_Trends \in {{"bullish"}, {"bearish"}}

\* the sum of the claim C10 without the alignment term
C10_Base ==
    LET primary == args.ta_data.primary_analysis
        trend   == IF "trend" \in DOMAIN primary THEN primary.trend ELSE "unknown"
        rsi     == IF "rsi" \in DOMAIN primary THEN primary.rsi ELSE 50
        impact  == IF "news_impact" \in DOMAIN args.news_data
                   THEN args.news_data.news_impact ELSE "minimal"
    IN  50
        + (IF trend \in {"bullish", "bearish"} THEN 10 ELSE 0)
        + (IF rsi < 30 \/ rsi > 70 THEN 5 ELSE 0)
        + (IF args.ta_data.market_condition = "trending" THEN 10 ELSE 0)
        - (IF args.ta_data.market_condition = "volatile" THEN 10 ELSE 0)
        + (IF \/ (args.news_data.sentiment = "bullish"
                  /\ args.prediction.direction = "BULLISH")
              \/ (args.news_data.sentiment = "bearish"
                  /\ args.prediction.direction = "BEARISH")
           THEN 10 ELSE 0)
        + (IF impact \in {"medium", "high"} THEN 5 ELSE 0)

C10_Clamp(x) == IF x < 0 THEN 0 ELSE IF x > 100 THEN 100 ELSE x

\* C10 as stated: the result is the clamped sum with +15 whenever all
\* analysed timeframes agree on a bullish/bearish trend, for every number of
\* analysed timeframes including exactly one.
C10_ConfidenceAsStated ==
    Returned =>
        result.value = C10_Clamp(C10_Base + (IF C10_AllAgree THEN 15 ELSE 0))

\* C10 amended: the +15 is granted only when more than one timeframe was
\* analysed and all of them agree on a bullish/bearish trend.
C10_ConfidenceFormula ==
    Returned =>
        result.value =
            C10_Clamp(C10_Base
                      + (IF C10_AllAgree
                            /\ Cardinality(args.ta_data.timeframes_analyzed) > 1
                         THEN 15 ELSE 0))

\* C10 witness: a single analysed timeframe with a bullish trend scored
\* without the alignment bonus
C10_Witness ==
    /\ Returned
    /\ Cardinality(args.ta_data.timeframes_analyzed) = 1
    /\ C10_AllAgree
    /\ result.value = C10_Base
    /\ result.value = 70

\* the upper clamp is exercised: the unclamped sum exceeds 100
C10_ClampReached ==
    /\ Returned
    /\ C10_Base + 15 > 100
    /\ result.value = 100

(***************************************************************************)
(* predict_agent.predict_node                                              *)
(***************************************************************************)
\* dict.get("error") used as a condition: present and not the empty string
HasError(d) == "error" \in DOMAIN d /\ d["error"] # ""

\* the record returned when data is missing or when the body raised
ErrorPrediction(error) ==
    [direction |-> "NEUTRAL", confidence |-> 0, error |-> error]

\* `not prediction.get(key)`: the key is missing, null or 0
Falsy(d, key) == key \notin DOMAIN d \/ d[key] = 0

DeriveStopLossFromCurrent(prediction_, direction, best_entry, atr, current_price) ==
    IF ~ Falsy(prediction_, "stop_loss") THEN prediction_["stop_loss"]
    ELSE IF direction = "BULLISH" THEN current_price - ((atr * 3) \div 2)
    ELSE IF direction = "BEARISH" THEN current_price + ((atr * 3) \div 2)
    ELSE current_price

\* stop_loss = prediction.get("stop_loss"), derived when that is falsy
DeriveStopLoss(prediction_, direction, best_entry, atr, current_price) ==
    IF ~ Falsy(prediction_, "stop_loss") THEN prediction_["stop_loss"]
    ELSE IF direction = "BULLISH" THEN best_entry - ((atr * 3) \div 2)
    ELSE IF direction = "BEARISH" THEN best_entry + ((atr * 3) \div 2)
    ELSE current_price

\* generate_prediction_with_qwen: the parsed response of the service; building
\* the prompt divides the ATR by the current price (get_timeframe_guidance),
\* and on a zero price the except branch returns the NEUTRAL fallback whose
\* target_price and stop_loss are null
GeneratePredictionWithQwen(ta_data, response_) ==
    LET primary       == Get(ta_data, "primary_analysis", EmptyDict)
        current_price == Get(primary, "current_price", 0)
    IN  IF current_price = 0 THEN [direction |-> "NEUTRAL"] ELSE response_

\* the prediction predict_node returns for the parsed language-service
\* response prediction_
PredictNode(ta_data, news_data, prediction_) ==
    IF HasError(ta_data) \/ HasError(news_data)
    THEN ErrorPrediction("Missing TA or News data")
    ELSE
    LET confidence       == CalculateConfidence(ta_data, news_data, prediction_)
        risk_level       == AssessRiskLevel(ta_data, news_data, confidence)
        primary_analysis == Get(ta_data, "primary_analysis", EmptyDict)
        current_price    == Get(primary_analysis, "current_price", 0)
        atr              == Get(primary_analysis, "atr", 0)
        fib_levels       == Get(primary_analysis, "fibonacci", EmptyDict)
        order_blocks     == Get(primary_analysis, "order_blocks", <<>>)
        market_condition == Get(ta_data, "market_condition", "unknown")
        direction        == Get(prediction_, "direction", "NEUTRAL")
        optimal_entry    == CalculateOptimalEntry(current_price, direction, fib_levels,
                                                  order_blocks, atr, market_condition)
        best_entry       == optimal_entry.price
        stop_loss        == DeriveStopLoss(prediction_, direction, best_entry, atr,
                                           current_price)
        multi_tps        == CalculateMultiTpLevels(best_entry, stop_loss, direction,
                                                   market_condition, confidence, atr,
                                                   fib_levels)
    IN  IF multi_tps.status = "raised" THEN ErrorPrediction(multi_tps.exc)
        ELSE [direction        |-> direction,
              entry_price      |-> best_entry,
              entry_reason     |-> optimal_entry.reason,
              entry_confidence |-> optimal_entry.confidence,
              stop_loss        |-> Round2(stop_loss),
              target_price     |-> IF multi_tps.value # <<>>
                                   THEN multi_tps.value[1].price
                                   ELSE Get(prediction_, "target_price", None),
              take_profits     |-> multi_tps.value,
              confidence       |-> confidence,
              risk_level       |-> risk_level,
              timeframe        |-> Get(ta_data, "primary_timeframe", "1h"),
              market_condition |-> market_condition]

(***************************************************************************)
(* Specification of predict_node: one workflow state, two evaluations of   *)
(* it, each with its own language-service response                         *)
(***************************************************************************)
Runs == {1, 2}

\* primary analyses at price 2500, recent high 3000 and low 2000: ATR 0
\* (fewer than 15 candles), 0.002, 0.022, 0.12 and 0.4 (candles that span
\* four fifths of the recent range)
PredictAtrs == {0, 4, 44, 240, 800}

PredictPrimaries ==
    {AnalysisRecord(t, 50, a, 2500, 3000, 2000, obs) :
        t \in Trends, a \in PredictAtrs,
        obs \in {<<>>, <<OrderBlock("bullish", 2420, 2380)>>}}

PredictOthers == {AnalysisRecord(t, 50, 44, 2500, 3000, 2000, <<>>) : t \in Trends}

PredictNews ==
    {[k \in {"sentiment"} |-> "neutral"],
     [sentiment |-> "bullish", news_impact |-> "high"],
     [sentiment |-> "bearish", news_impact |-> "medium"],
     [error |-> "fetch failed", sentiment |-> "neutral"]}

\* the parsed response: the direction, and the numeric fields the prompt asks
\* for either absent (null, fallback parser) or filled in by the service
Responses ==
    [direction : Directions]
    \cup [direction : Directions, stop_loss : {2200, 2600},
          target_price : {2800}, entry_price : {2480}]

Init ==
    /\ state \in [ta_data : TaDatas({<<"1h">>, <<"15m", "1h">>},
                                     PredictPrimaries, PredictOthers)
                             \cup {[k \in {"error"} |-> "No candle data fetched"]},
                  news_data : PredictNews]
    /\ response = [r \in Runs |-> NotCalled]
    /\ prediction = [r \in Runs |-> NotCalled]
    /\ args = Unused
    /\ result = Unused
    /\ node = Unused

\* one evaluation of predict_node on the state, run r
PredictNodeRun(r) ==
    /\ prediction[r] = NotCalled
    /\ IF HasError(state.ta_data) \/ HasError(state.news_data)
       THEN /\ response' = response
            /\ prediction' = [prediction EXCEPT ![r] =
                   Return(PredictNode(state.ta_data, state.news_data, EmptyDict))]
       ELSE \E resp \in Responses :
            /\ response' = [response EXCEPT ![r] = Return(resp)]
            /\ prediction' = [prediction EXCEPT ![r] =
                   Return(PredictNode(state.ta_data, state.news_data,
                       GeneratePredictionWithQwen(state.ta_data, resp)))]
    /\ UNCHANGED <<state, args, result, node>>

Next == \E r \in Runs : PredictNodeRun(r)

Spec == Init /\ [][Next]_vars

(***************************************************************************)
(* Claims about predict_node (checked under Spec)                          *)
(***************************************************************************)
\* run r has returned a trade plan without an error field
PlanOf(r) ==
    prediction[r].status = "returned" /\ "error" \notin DOMAIN prediction[r].value

\* stop, entry and the take-profit prices of a plan, in that order
Levels(plan) ==
    <<plan.stop_loss, plan.entry_price>>
    \o [i \in 1..Len(plan.take_profits) |-> plan.take_profits[i].price]

\* C1: every plan emitted without an error field satisfies, for BULLISH,
\* stop_loss < entry_price < take_profits[0].price < ... and for BEARISH the
\* mirror, for every primary analysis and every language-service response.
C1_LevelOrdering ==
    \A r \in Runs :
        (PlanOf(r) /\ prediction[r].value.direction \in {"BULLISH", "BEARISH"}) =>
            LET levels == Levels(prediction[r].value)
            IN  \A i \in 1..(Len(levels) - 1) :
                    IF prediction[r].value.direction = "BULLISH"
                    THEN levels[i] < levels[i + 1]
                    ELSE levels[i] > levels[i + 1]

\* C3: two runs on the same ta_data and news_data whose responses carry the
\* same direction but different numeric fields produce identical
\* entry_price, stop_loss and take_profits.
C3_NumbersNotFromResponse ==
    (/\ PlanOf(1)
     /\ PlanOf(2)
     /\ response[1].value.direction = response[2].value.direction)
        => /\ prediction[1].value.entry_price = prediction[2].value.entry_price
           /\ prediction[1].value.stop_loss = prediction[2].value.stop_loss
           /\ prediction[1].value.take_profits = prediction[2].value.take_profits

\* run r got a response without a stop and returned a plan, for BULLISH/BEARISH
C9_NoStopSupplied(r) ==
    /\ PlanOf(r)
    /\ "stop_loss" \notin DOMAIN response[r].value
    /\ prediction[r].value.direction \in {"BULLISH", "BEARISH"}

\* entry -/+ 1.5*ATR of the plan of run r, unrounded
C9_Derived(r) ==
    IF prediction[r].value.direction = "BULLISH"
    THEN prediction[r].value.entry_price
         - (3 * state.ta_data.primary_analysis.atr) \div 2
    ELSE prediction[r].value.entry_price
         + (3 * state.ta_data.primary_analysis.atr) \div 2

\* C9 as stated: with no stop supplied, stop_loss = entry_price - 1.5*ATR
\* for BULLISH and entry_price + 1.5*ATR for BEARISH, entry_price being the
\* price chosen by calculate_optimal_entry.
C9_StopAsStated ==
    \A r \in Runs :
        C9_NoStopSupplied(r) => prediction[r].value.stop_loss = C9_Derived(r)

\* C9 amended: the plan's stop_loss is that value rounded to two decimals,
\* and entry_price is the price of calculate_optimal_entry's candidate.
C9_StopRounded ==
    \A r \in Runs :
        C9_NoStopSupplied(r) =>
            /\ prediction[r].value.stop_loss = Round2(C9_Derived(r))
            /\ prediction[r].value.entry_price =
                   state.ta_data.primary_analysis.fibonacci["fib_618"]

\* C9 witness: a BEARISH plan derived its stop from an entry that differs
\* from the current price, with an ATR that is not a multiple of a cent
C9_Witness ==
    \E r \in Runs :
        /\ C9_NoStopSupplied(r)
        /\ prediction[r].value.direction = "BEARISH"
        /\ prediction[r].value.entry_price # state.ta_data.primary_analysis.current_price
        /\ state.ta_data.primary_analysis.atr = 44
        /\ prediction[r].value.stop_loss > prediction[r].value.entry_price

(***************************************************************************)
(* Specification of assess_risk_level as a pure function                   *)
(***************************************************************************)
\* (atr, current_price) of the primary analysis: ATR 1%, 3% and 4% of a
\* price of 2000, and a zero price
RiskAtrPrices == {<<20, 2000>>, <<60, 2000>>, <<80, 2000>>, <<20, 0>>}

\* ta_data as assess_risk_level reads it; the empty dict takes the defaults
RiskTaDatas ==
    {EmptyDict}
    \cup {[market_condition |-> c,
           primary_analysis |-> [atr |-> p[1], current_price |-> p[2]]] :
             c \in MarketConditions, p \in RiskAtrPrices}

RiskConfidences == {45, 49, 50, 69, 70, 80}

RiskArgs ==
    [fn : {"assess_risk_level"}, ta_data : RiskTaDatas, news_data : NewsDatas,
     confidence : RiskConfidences]

InitRisk ==
    /\ args \in RiskArgs
    /\ result = NotCalled
    /\ state = Unused
    /\ response = Unused
    /\ prediction = Unused
    /\ node = Unused

CallRiskLevel ==
    /\ args.fn = "assess_risk_level"
    /\ result = NotCalled
    /\ result' = Return(AssessRiskLevel(args.ta_data, args.news_data,
                                        args.confidence))
    /\ UNCHANGED <<state, response, prediction, args, node>>

NextRisk == CallRiskLevel

SpecRisk == InitRisk /\ [][NextRisk]_vars

(***************************************************************************)
(* Claims about assess_risk_level (checked under SpecRisk)                 *)
(***************************************************************************)
\* the current price assess_risk_level divides by (1 when the key is absent)
C11_Price ==
    IF "primary_analysis" \in DOMAIN args.ta_data
    THEN args.ta_data.primary_analysis.current_price ELSE 1

\* one of the four HIGH conditions of the claim holds
C11_HighCase ==
    \/ "market_condition" \in DOMAIN args.ta_data
       /\ args.ta_data.market_condition = "volatile"
    \/ "primary_analysis" \in DOMAIN args.ta_data
       /\ args.ta_data.primary_analysis.atr * 100
            > 3 * args.ta_data.primary_analysis.current_price
    \/ args.confidence < 50
    \/ "news_impact" \in DOMAIN args.news_data
       /\ args.news_data.news_impact = "high"

\* C11: for every input with current price > 0, assess_risk_level returns
\* HIGH iff the market condition is volatile or ATR/price > 3% or confidence
\* < 50 or the news impact is high; otherwise MEDIUM iff confidence < 70;
\* otherwise LOW.
C11_RiskLevel ==
    (Returned /\ C11_Price > 0) =>
        /\ (result.value = "HIGH") <=> C11_HighCase
        /\ ~C11_HighCase => ((result.value = "MEDIUM") <=> (args.confidence < 70))
        /\ (~C11_HighCase /\ args.confidence >= 70) => result.value = "LOW"

\* C11 witness: high news impact alone, at confidence 80 in a calm trending
\* market with a positive price, was rated
C11_Witness ==
    /\ Returned
    /\ C11_Price > 0
    /\ "market_condition" \in DOMAIN args.ta_data
    /\ args.ta_data.market_condition = "trending"
    /\ args.ta_data.primary_analysis.atr = 20
    /\ args.confidence = 80
    /\ "news_impact" \in DOMAIN args.news_data
    /\ args.news_data.news_impact = "high"
    /\ result.value = "HIGH"

(***************************************************************************)
(* Specification of classify_market_condition as a pure function           *)
(***************************************************************************)
\* ATR of 0%, 1%, just under 1.5%, 1.5%, 2%, 3%, just over 3% and 4% of a
\* price of 2000
ClassifyAtrs == {0, 20, 29, 30, 40, 60, 61, 80}

ClassifyPrices == {0 - 2000, 0, 2000}

ClassifyAnalyses ==
    {EmptyDict}
    \cup [atr : ClassifyAtrs, trend : Trends \cup {"unknown"},
          current_price : ClassifyPrices]

ClassifyArgs == [fn : {"classify_market_condition"}, analysis : ClassifyAnalyses]

InitClassify ==
    /\ args \in ClassifyArgs
    /\ result = NotCalled
    /\ state = Unused
    /\ response = Unused
    /\ prediction = Unused
    /\ node = Unused

CallClassify ==
    /\ args.fn = "classify_market_condition"
    /\ result = NotCalled
    /\ result' = Return(ClassifyMarketCondition(args.analysis))
    /\ UNCHANGED <<state, response, prediction, args, node>>

NextClassify == CallClassify

SpecClassify == InitClassify /\ [][NextClassify]_vars

(***************************************************************************)
(* Claims about classify_market_condition (checked under SpecClassify)     *)
(***************************************************************************)
\* the ratio ATR/price*100 of the claim, as the pair <<numerator, denominator>>
\* with a positive denominator; a price <= 0 (or no price) is ratio 0
C12_Ratio ==
    IF "current_price" \in DOMAIN args.analysis /\ args.analysis.current_price > 0
    THEN <<args.analysis.atr * 100, args.analysis.current_price>>
    ELSE <<0, 1>>

C12_Trend ==
    IF "trend" \in DOMAIN args.analysis THEN args.analysis.trend ELSE "unknown"

\* C12: classify_market_condition returns volatile if ATR/price*100 > 3,
\* whatever the trend; else ranging if the trend is sideways and the ratio is
\* < 1.5; else trending if the trend is bullish or bearish; else unknown.  A
\* sideways trend with a ratio in [1.5, 3] is unknown and a price <= 0 counts
\* as ratio 0.
C12_Classification ==
    Returned =>
        result.value =
            IF C12_Ratio[1] > 3 * C12_Ratio[2] THEN "volatile"
            ELSE IF C12_Trend = "sideways" /\ 2 * C12_Ratio[1] < 3 * C12_Ratio[2]
                 THEN "ranging"
            ELSE IF C12_Trend \in {"bullish", "bearish"} THEN "trending"
            ELSE "unknown"

\* C12 witness: a sideways market with ATR exactly 1.5% of the price was
\* classified unknown
C12_Witness ==
    /\ Returned
    /\ args.analysis # EmptyDict
    /\ args.analysis.trend = "sideways"
    /\ args.analysis.current_price = 2000
    /\ args.analysis.atr = 30
    /\ result.value = "unknown"

\* the precedence of the claim: a bullish market above 3% is volatile, and a
\* sideways market at a price <= 0 is ranging whatever the ATR
C12_PrecedenceWitness ==
    /\ Returned
    /\ args.analysis # EmptyDict
    /\ \/ args.analysis.trend = "bullish" /\ args.analysis.current_price = 2000
          /\ args.analysis.atr = 61 /\ result.value = "volatile"
       \/ args.analysis.trend = "sideways" /\ args.analysis.current_price = 0
          /\ args.analysis.atr = 80 /\ result.value = "ranging"

(***************************************************************************)
(* ta_agent: ta_node                                                       *)
(***************************************************************************)
\* what the gathered fetch_candles task of one timeframe yields: an
\* exception, an empty list, or candles.  Candles are described by their
\* first close and by the analysis the indicator and structure helpers
\* compute from them.
FetchException == [kind |-> "exception"]

FetchEmpty == [kind |-> "empty"]

Candles(first_close, analysis) ==
    [kind |-> "candles", first_close |-> first_close, analysis |-> analysis]

\* the body of the per-timeframe loop: price_change_percent divides by the
\* first close
AnalyzeTimeframe(candles) ==
    IF candles.first_close = 0 THEN Raised(ZeroDivisionError)
    ELSE Return(candles.analysis)

TaNodeCompileEmpty(timeframes, results) ==
    LET requested   == {timeframes[i] : i \in 1..Len(timeframes)}
        candle_data == {tf \in requested : results[tf].kind = "candles"}
        analyses    == [tf \in candle_data |-> AnalyzeTimeframe(results[tf])]
    IN  IF \E tf \in candle_data : analyses[tf].status = "raised"
        THEN [ta_data |-> [error |-> ZeroDivisionError]]
        ELSE [ta_data |-> CompileTaData(timeframes,
                              [tf \in candle_data |-> analyses[tf].value])]

\* ta_node: the update it returns for the requested timeframes and the
\* gathered fetch results; any exception inside the try block, the one of an
\* analysis included, is caught by the outer except
TaNode(timeframes, results) ==
    LET requested   == {timeframes[i] : i \in 1..Len(timeframes)}
        candle_data == {tf \in requested : results[tf].kind = "candles"}
        analyses    == [tf \in candle_data |-> AnalyzeTimeframe(results[tf])]
    IN  IF candle_data = {}
        THEN [ta_data |-> [error |-> "No candle data fetched"]]
        ELSE IF \E tf \in candle_data : analyses[tf].status = "raised"
        THEN [ta_data |-> [error |-> ZeroDivisionError]]
        ELSE [ta_data |-> CompileTaData(timeframes,
                              [tf \in candle_data |-> analyses[tf].value])]

(***************************************************************************)
(* Specification of the workflow after parse_query: ta, then news unless   *)
(* the analysis type skips it, then predict                                *)
(***************************************************************************)
MaxRequested == 3

AnalysisTypes == {"scalping", "short_term"}

\* a trending analysis (bullish, ATR 1.76% of price) and a ranging one
\* (sideways, ATR 0.96%)
FlowAnalyses ==
    {AnalysisRecord("bullish", 50, 44, 2500, 3000, 2000, <<>>),
     AnalysisRecord("sideways", 50, 24, 2500, 3000, 2000, <<>>)}

FetchOutcomes ==
    {FetchException, FetchEmpty,
     Candles(0, AnalysisRecord("bullish", 50, 44, 2500, 3000, 2000, <<>>))}
    \cup {Candles(2400, a) : a \in FlowAnalyses}

\* the news_data should_skip_news writes into the state it is handed
SkippedNews == [sentiment |-> "neutral", news_impact |-> "minimal (news skipped)"]

\* as should_skip_news, but only 'scalping' skips the news
ShouldSkipNewsScalpingOnly(state_) ==
    IF Get(state_, "analysis_type", "short_term") \in {"scalping"}
    THEN "predict" ELSE "news"

\* should_skip_news: the node that follows ta
ShouldSkipNews(state_) ==
    IF Get(state_, "analysis_type", "short_term") \in {"ultra_scalping", "scalping"}
    THEN "predict" ELSE "news"

\* the timeframes of a list, as a set
Requested(timeframes) == {timeframes[i] : i \in 1..Len(timeframes)}

InitFlow ==
    /\ state \in [timeframes : TimeframeLists(MaxRequested),
                  analysis_type : AnalysisTypes]
    /\ args \in [fn : {"prediction_workflow"},
                 results : [Requested(state.timeframes) -> FetchOutcomes],
                 news_data : PredictNews]
    /\ node = "ta"
    /\ response = NotCalled
    /\ prediction = NotCalled
    /\ result = Unused

\* the ta node and the conditional edge behind it; the routing function
\* assigns news_data on the state object it receives, which the graph may or
\* may not carry over to the next node
TaNodeRun ==
    /\ node = "ta"
    /\ node' = ShouldSkipNews(state)
    /\ \E kept \in BOOLEAN :
          state' = IF ShouldSkipNews(state) = "predict" /\ kept
                   THEN [news_data |-> SkippedNews]
                        @@ TaNode(state.timeframes, args.results) @@ state
                   ELSE TaNode(state.timeframes, args.results) @@ state
    /\ UNCHANGED <<response, prediction, args, result>>

NewsNodeRun ==
    /\ node = "news"
    /\ node' = "predict"
    /\ state' = [news_data |-> args.news_data] @@ state
    /\ UNCHANGED <<response, prediction, args, result>>

FlowPredictRun ==
    /\ node = "predict"
    /\ node' = "END"
    /\ LET ta_data   == Get(state, "ta_data", EmptyDict)
           news_data == Get(state, "news_data", EmptyDict)
       IN  IF HasError(ta_data) \/ HasError(news_data)
           THEN /\ response' = response
                /\ prediction' = Return(PredictNode(ta_data, news_data, EmptyDict))
           ELSE \E resp \in Responses :
                /\ response' = Return(resp)
                /\ prediction' = Return(PredictNode(ta_data, news_data,
                                     GeneratePredictionWithQwen(ta_data, resp)))
    /\ UNCHANGED <<state, args, result>>

NextFlow == TaNodeRun \/ NewsNodeRun \/ FlowPredictRun

SpecFlow == InitFlow /\ [][NextFlow]_vars

(***************************************************************************)
(* Claims about ta_node and the workflow (checked under SpecFlow)          *)
(***************************************************************************)
\* ta_node has returned
TaDone == node # "ta"

\* the requested timeframes whose fetch raised or brought no candles
C13_FetchFailed ==
    {tf \in Requested(state.timeframes) : args.results[tf].kind # "candles"}

\* the requested timeframes whose candles make the analysis raise
C13_AnalysisFailed ==
    {tf \in Requested(state.timeframes) \ C13_FetchFailed :
        args.results[tf].first_close = 0}

C13_NotFailed ==
    Requested(state.timeframes) \ (C13_FetchFailed \cup C13_AnalysisFailed)

\* C13: for any subset of the requested timeframes whose candle fetch or
\* per-timeframe analysis fails, ta_node still returns analyses for every
\* other requested timeframe: multi_timeframe_analysis and
\* timeframes_analyzed contain exactly the timeframes that did not fail.
C13_FailureIsolated ==
    (TaDone /\ C13_NotFailed # {}) =>
        /\ "multi_timeframe_analysis" \in DOMAIN state.ta_data
        /\ DOMAIN state.ta_data.multi_timeframe_analysis = C13_NotFailed
        /\ state.ta_data.timeframes_analyzed = C13_NotFailed

\* C14: if no requested timeframe yields candles, ta_node returns ta_data
\* carrying only an error, and predict_node then returns a plan with
\* direction NEUTRAL, confidence 0 and an error field, containing no
\* entry_price, stop_loss or take_profits.
C14_NoDataFailsWhole ==
    (C13_FetchFailed = Requested(state.timeframes)) =>
        /\ TaDone =>
              /\ DOMAIN state.ta_data = {"error"}
              /\ state.ta_data.error = "No candle data fetched"
        /\ node = "END" =>
              /\ prediction.status = "returned"
              /\ prediction.value.direction = "NEUTRAL"
              /\ prediction.value.confidence = 0
              /\ "error" \in DOMAIN prediction.value
              /\ DOMAIN prediction.value
                    \cap {"entry_price", "stop_loss", "take_profits"} = {}

\* C14 witness: the workflow ended after three requested timeframes of which
\* none yielded candles, one fetch having raised and one returned no candles
C14_Witness ==
    /\ node = "END"
    /\ Len(state.timeframes) = 3
    /\ C13_FetchFailed = Requested(state.timeframes)
    /\ \E tf \in C13_FetchFailed : args.results[tf] = FetchException
    /\ \E tf \in C13_FetchFailed : args.results[tf] = FetchEmpty
    /\ "error" \in DOMAIN prediction.value

\* C15: ta_node selects as primary timeframe the middle element of the
\* requested list (index len//2, counted from 0), or the sole element of a
\* list of one, and market_condition is the classification of that primary
\* timeframe's analysis (of the empty analysis when the primary timeframe
\* brought no candles).
C15_PrimaryIsMiddle ==
    (TaDone /\ ~ HasError(state.ta_data)) =>
        LET timeframes == state.timeframes
            middle     == IF Len(timeframes) = 1 THEN timeframes[1]
                          ELSE timeframes[(Len(timeframes) \div 2) + 1]
            multi      == state.ta_data.multi_timeframe_analysis
        IN  /\ state.ta_data.primary_timeframe = middle
            /\ state.ta_data.primary_analysis =
                  (IF middle \in DOMAIN multi THEN multi[middle] ELSE EmptyDict)
            /\ state.ta_data.market_condition =
                  (IF middle \in DOMAIN multi
                   THEN ClassifyMarketCondition(multi[middle])
                   ELSE "unknown")

\* C15 witness: of three analysed timeframes the middle one is ranging and
\* the other two are trending, and the market condition is ranging
C15_Witness ==
    /\ TaDone
    /\ ~ HasError(state.ta_data)
    /\ state.timeframes = <<"15m", "1h", "4h">>
    /\ state.ta_data.timeframes_analyzed = {"15m", "1h", "4h"}
    /\ state.ta_data.multi_timeframe_analysis["15m"].trend = "bullish"
    /\ state.ta_data.multi_timeframe_analysis["1h"].trend = "sideways"
    /\ state.ta_data.multi_timeframe_analysis["4h"].trend = "bullish"
    /\ state.ta_data.primary_timeframe = "1h"
    /\ state.ta_data.market_condition = "ranging"

(***************************************************************************)
(* predict_agent: the ATR multipliers of get_timeframe_guidance, in tenths *)
(***************************************************************************)
TfMultipliers(timeframe) ==
    CASE timeframe = "1m"  -> [target |-> <<5, 10>>,   sl |-> <<3, 5>>]
      [] timeframe = "5m"  -> [target |-> <<10, 20>>,  sl |-> <<5, 10>>]
      [] timeframe = "15m" -> [target |-> <<20, 30>>,  sl |-> <<10, 15>>]
      [] timeframe = "1h"  -> [target |-> <<30, 50>>,  sl |-> <<15, 25>>]
      [] timeframe = "4h"  -> [target |-> <<50, 80>>,  sl |-> <<25, 40>>]
      [] timeframe = "1d"  -> [target |-> <<80, 150>>, sl |-> <<40, 80>>]
      [] OTHER             -> [target |-> <<20, 40>>,  sl |-> <<10, 20>>]

\* a distance between two reported prices lies within [band[1], band[2]] x
\* ATR, the band in tenths, up to the cent the reported prices are rounded to
WithinBand(distance, band, atr) ==
    /\ 10 * (distance + Cent) >= band[1] * atr
    /\ 10 * (distance - Cent) <= band[2] * atr

\* C16 (checked under Spec): the final plan is constrained to the
\* ATR-multiplier band of its primary timeframe: |entry_price - stop_loss|
\* lies within [sl_min, sl_max] x ATR and every take-profit distance
\* |tp.price - entry_price| within [target_min, target_max] x ATR of the
\* guidance table (each up to the rounding of the reported prices; stated
\* here for the BULLISH and BEARISH plans).
C16_PlanWithinBands ==
    \A r \in Runs :
        PlanOf(r) =>
            LET plan == prediction[r].value
                atr  == state.ta_data.primary_analysis.atr
                band == TfMultipliers(plan.timeframe)
            IN  (/\ plan.timeframe \in {"1m", "5m", "15m", "1h", "4h", "1d"}
                 /\ plan.direction \in {"BULLISH", "BEARISH"}) =>
                    /\ WithinBand(Abs(plan.entry_price - plan.stop_loss),
                                  band.sl, atr)
                    /\ \A i \in 1..Len(plan.take_profits) :
                          WithinBand(Abs(plan.take_profits[i].price
                                         - plan.entry_price),
                                     band.target, atr)

(***************************************************************************)
(* Python float arithmetic of calculate_pivot_points.  A float is modelled *)
(* as a binary floating-point number of FloatPrecision significant bits,   *)
(* counted in units of 2^-FloatFractionBits (the spacing of the smallest   *)
(* numbers); every operation rounds its exact result to the nearest such   *)
(* number, exact ties to the even significand, as IEEE 754 does with 53    *)
(* bits.                                                                   *)
(***************************************************************************)
FloatPrecision == 4

FloatFractionBits == 3

FloatUnit == 2 ^ FloatFractionBits

RECURSIVE FloatSpacing(_, _)
\* the distance between neighbouring floats at a magnitude, from spacing s up
FloatSpacing(magnitude, s) ==
    IF magnitude < (2 ^ FloatPrecision) * s THEN s
    ELSE FloatSpacing(magnitude, 2 * s)

\* the float nearest to n/d units, d > 0
RoundFloat(n, d) ==
    LET s == FloatSpacing(Abs(n) \div d, 1)
    IN  s * RoundHalfEven(n, d * s)

\* the float of an integer literal, and of the literal 1.1
Float(k) == RoundFloat(k * FloatUnit, 1)

Float1_1 == RoundFloat(11 * FloatUnit, 10)

FAdd(a, b) == RoundFloat(a + b, 1)

FSub(a, b) == RoundFloat(a - b, 1)

FMul(a, b) == RoundFloat(a * b, FloatUnit)

\* a / b for b # 0
FDiv(a, b) ==
    IF b > 0 THEN RoundFloat(a * FloatUnit, b)
    ELSE RoundFloat((0 - a) * FloatUnit, 0 - b)

(***************************************************************************)
(* AdvancedAnalysis.calculate_pivot_points                                 *)
(***************************************************************************)
ClassicPivot(high, low, close) == FDiv(FAdd(FAdd(high, low), close), Float(3))

WoodiePivotUnweighted(high, low, close) ==
    FDiv(FAdd(FAdd(high, low), close), Float(4))

WoodiePivot(high, low, close) ==
    FDiv(FAdd(FAdd(high, low), FMul(Float(2), close)), Float(4))

\* R1..R3 and S1..S3 of the classic and woodie methods
StandardLevels(pp, high, low) ==
    [PP |-> pp,
     R1 |-> FSub(FMul(Float(2), pp), low),
     S1 |-> FSub(FMul(Float(2), pp), high),
     R2 |-> FAdd(pp, FSub(high, low)),
     S2 |-> FSub(pp, FSub(high, low)),
     R3 |-> FAdd(high, FMul(Float(2), FSub(pp, low))),
     S3 |-> FSub(low, FMul(Float(2), FSub(high, pp)))]

\* (high - low) * 1.1 / k
CamarillaOffset(high, low, k) == FDiv(FMul(FSub(high, low), Float1_1), Float(k))

CamarillaLevels(pp, high, low, close) ==
    [PP |-> pp,
     R1 |-> FAdd(close, CamarillaOffset(high, low, 12)),
     R2 |-> FAdd(close, CamarillaOffset(high, low, 6)),
     R3 |-> FAdd(close, CamarillaOffset(high, low, 4)),
     R4 |-> FAdd(close, CamarillaOffset(high, low, 2)),
     S1 |-> FSub(close, CamarillaOffset(high, low, 12)),
     S2 |-> FSub(close, CamarillaOffset(high, low, 6)),
     S3 |-> FSub(close, CamarillaOffset(high, low, 4)),
     S4 |-> FSub(close, CamarillaOffset(high, low, 2))]

CalculatePivotPoints(high, low, close, method) ==
    IF method = "classic"
    THEN StandardLevels(ClassicPivot(high, low, close), high, low)
    ELSE IF method = "woodie"
    THEN StandardLevels(WoodiePivot(high, low, close), high, low)
    ELSE IF method = "camarilla"
    THEN CamarillaLevels(ClassicPivot(high, low, close), high, low, close)
    ELSE [k \in {"PP", "R1", "R2", "R3", "S1", "S2", "S3"} |->
             ClassicPivot(high, low, close)]

(***************************************************************************)
(* Specification of calculate_fibonacci_levels and calculate_pivot_points  *)
(* as pure functions                                                       *)
(***************************************************************************)
\* recent highs and lows in ticks, on the grid of 1000 ticks
FibPrices == {1000, 2000, 3000, 5000, 10000}

\* trend as ta_node passes it (never sideways), and any other label
FibTrends == {"bullish", "bearish", "unknown"}

\* the recent high is a maximum of highs, the recent low a minimum of lows
FibArgs ==
    {a \in [fn : {"calculate_fibonacci_levels"}, high : FibPrices,
            low : FibPrices, trend : FibTrends] : a.low <= a.high}

\* prices of a candle as floats: every float of the binade
\* [2^(FloatPrecision-1), 2^FloatPrecision) units
PivotPrices == (2 ^ (FloatPrecision - 1)) .. ((2 ^ FloatPrecision) - 1)

PivotMethods == {"classic", "woodie", "camarilla", "standard"}

\* high, low and close of one candle: low <= close <= high
PivotArgs ==
    {a \in [fn : {"calculate_pivot_points"}, high : PivotPrices, low : PivotPrices,
            close : PivotPrices, method : PivotMethods] :
        a.low <= a.close /\ a.close <= a.high}

InitZone ==
    /\ args \in FibArgs \cup PivotArgs
    /\ result = NotCalled
    /\ state = Unused
    /\ response = Unused
    /\ prediction = Unused
    /\ node = Unused

CallFibonacci ==
    /\ args.fn = "calculate_fibonacci_levels"
    /\ result = NotCalled
    /\ result' = Return(CalculateFibonacciLevels(args.high, args.low, args.trend))
    /\ UNCHANGED <<state, response, prediction, args, node>>

CallPivotPoints ==
    /\ args.fn = "calculate_pivot_points"
    /\ result = NotCalled
    /\ result' = Return(CalculatePivotPoints(args.high, args.low, args.close,
                                             args.method))
    /\ UNCHANGED <<state, response, prediction, args, node>>

NextZone == CallFibonacci \/ CallPivotPoints

SpecZone == InitZone /\ [][NextZone]_vars

(***************************************************************************)
(* Claims about calculate_fibonacci_levels (checked under SpecZone)        *)
(***************************************************************************)
FibReturned == args.fn = "calculate_fibonacci_levels" /\ Returned

\* the retracement ratios of the levels between the anchors, in thousandths
C17_Ratios ==
    [fib_236 |-> 236, fib_382 |-> 382, fib_500 |-> 500, fib_618 |-> 618,
     fib_786 |-> 786]

\* a sequence of numbers is strictly increasing
StrictlyIncreasing(seq) == \A i \in 1..(Len(seq) - 1) : seq[i] < seq[i + 1]

C18_Ratios == [fib_1272 |-> 1272, fib_1618 |-> 1618, fib_2618 |-> 2618]

\* C18 as stated: for each extension ratio r the level is high + (high-low)*r
\* for a bullish trend and low - (high-low)*r for a bearish trend.
C18_ExtensionAsStated ==
    (FibReturned /\ args.trend \in {"bullish", "bearish"}) =>
        \A k \in DOMAIN C18_Ratios :
            1000 * result.value[k] =
                IF args.trend = "bullish"
                THEN 1000 * args.high + (args.high - args.low) * C18_Ratios[k]
                ELSE 1000 * args.low - (args.high - args.low) * C18_Ratios[k]

\* C18 amended: the extension of ratio r is measured from the far anchor of
\* the range: low + (high-low)*r, which is high + (high-low)*(r-1), for a
\* bullish trend, and high - (high-low)*r, which is low - (high-low)*(r-1),
\* for a bearish trend.
C18_ExtensionFromFarAnchor ==
    (FibReturned /\ args.trend \in {"bullish", "bearish"}) =>
        \A k \in DOMAIN C18_Ratios :
            1000 * result.value[k] =
                IF args.trend = "bullish"
                THEN 1000 * args.low + (args.high - args.low) * C18_Ratios[k]
                ELSE 1000 * args.high - (args.high - args.low) * C18_Ratios[k]

\* C18 witness: bullish extensions of the range 2000..3000
C18_Witness ==
    /\ FibReturned
    /\ args.trend = "bullish"
    /\ args.high = 3000
    /\ args.low = 2000
    /\ result.value.fib_1272 = 3272
    /\ result.value.fib_1618 = 3618
    /\ result.value.fib_2618 = 4618

(***************************************************************************)
(* Claims about zero-range input (checked under SpecZone)                  *)
(***************************************************************************)
\* the call was given a zero range: high == low, and for the pivots a close
\* at that price
C19_ZeroRange ==
    /\ args.high = args.low
    /\ args.fn = "calculate_pivot_points" => args.close = args.high

\* C19 as stated: on zero-range input calculate_fibonacci_levels returns all
\* ten levels equal to the single price and calculate_pivot_points (classic,
\* woodie, camarilla) returns PP and every R/S level equal to that price; no
\* division by zero occurs.
C19_CollapsedAsStated ==
    (result # NotCalled /\ C19_ZeroRange) =>
        /\ Returned
        /\ \A k \in DOMAIN result.value : result.value[k] = args.high

\* the spacing of the floats at the magnitude of x
C19_Ulp(x) == FloatSpacing(Abs(x), 1)

\* C19 amended: on zero-range input no call raises; the ten Fibonacci
\* levels, all woodie levels and the camarilla R1..R4, S1..S4 equal the
\* single price exactly; the pivot PP = (3 x price) / 3 of the classic and
\* camarilla methods is the price up to one unit in the last place, and the
\* classic R2 = S2 = PP and R1 = R3 = S1 = S3 = 2 x PP - price.
C19_CollapsedUpToRounding ==
    (result # NotCalled /\ C19_ZeroRange) =>
        LET v     == result.value
            price == args.high
        IN  /\ Returned
            /\ args.fn = "calculate_fibonacci_levels" =>
                  /\ DOMAIN v = FibKeys
                  /\ \A k \in FibKeys : v[k] = price
            /\ (args.fn = "calculate_pivot_points" /\ args.method = "woodie") =>
                  \A k \in DOMAIN v : v[k] = price
            /\ (args.fn = "calculate_pivot_points" /\ args.method = "camarilla") =>
                  /\ Abs(v.PP - price) <= C19_Ulp(price)
                  /\ \A k \in DOMAIN v \ {"PP"} : v[k] = price
            /\ (args.fn = "calculate_pivot_points" /\ args.method = "classic") =>
                  /\ Abs(v.PP - price) <= C19_Ulp(price)
                  /\ v.R2 = v.PP /\ v.S2 = v.PP
                  /\ \A k \in {"R1", "R3", "S1", "S3"} : v[k] = 2 * v.PP - price

\* C19 witness: a classic pivot of a zero-range candle that is not the price
C19_Witness ==
    /\ Returned
    /\ args.fn = "calculate_pivot_points"
    /\ args.method = "classic"
    /\ C19_ZeroRange
    /\ result.value.PP # args.close
    /\ result.value.R1 # result.value.PP

(***************************************************************************)
(* AdvancedAnalysis.find_order_blocks                                      *)
(***************************************************************************)
IsRed(candle) == candle.close < candle.open

IsGreen(candle) == candle.close > candle.open

\* what one pass of the loop body appends for the candle at position j
\* (counted from 1) of the window
BlocksAt(recent_candles, j) ==
    LET current == recent_candles[j]
        next1   == recent_candles[j + 1]
        next2   == recent_candles[j + 2]
        strong_green == /\ IsGreen(next1) /\ IsGreen(next2)
                        /\ next1.close > current.high
        strong_red   == /\ IsRed(next1) /\ IsRed(next2)
                        /\ next1.close < current.low
    IN  (IF IsRed(current) /\ strong_green
         THEN <<OrderBlock("bullish", current.high, current.low)>> ELSE <<>>)
        \o (IF IsGreen(current) /\ strong_red
            THEN <<OrderBlock("bearish", current.high, current.low)>> ELSE <<>>)

RECURSIVE BlocksBetween(_, _, _)
\* the blocks appended for the positions from, from + 1, ..., to, in order
BlocksBetween(recent_candles, from, to) ==
    IF from > to THEN <<>>
    ELSE BlocksAt(recent_candles, from)
         \o BlocksBetween(recent_candles, from + 1, to)

\* seq[-3:]
LastThree(seq) == IF Len(seq) > 3 THEN SubSeq(seq, Len(seq) - 2, Len(seq)) ELSE seq

\* candles[-lookback:] for 1 <= lookback <= len(candles)
Trailing(candles, lookback) ==
    SubSeq(candles, Len(candles) - lookback + 1, Len(candles))

\* range(1, len(recent_candles) - 3) visits the positions 2 .. len - 3 when
\* counted from 1
FindOrderBlocks(candles, lookback) ==
    IF Len(candles) < lookback THEN <<>>
    ELSE LET recent_candles == Trailing(candles, lookback)
         IN  LastThree(BlocksBetween(recent_candles, 2, Len(recent_candles) - 3))

(***************************************************************************)
(* Specification of find_order_blocks as a pure function                   *)
(***************************************************************************)
MaxLookback == 6

\* a red candle closing at 0.5, a green candle closing at 1.5 below the red
\* candle's high of 1.6, and a green candle closing at 2.0 above it; the red
\* close lies below the low 0.55 of both green candles
RedCandle == [open |-> 30, close |-> 10, high |-> 32, low |-> 8]

WeakGreenCandle == [open |-> 12, close |-> 30, high |-> 31, low |-> 11]

StrongGreenCandle == [open |-> 12, close |-> 40, high |-> 43, low |-> 11]

CandleShapes == {RedCandle, WeakGreenCandle, StrongGreenCandle}

\* twelve candles alternating in pairs: every second candle is an order block
AlternatingCandles ==
    [i \in 1..12 |-> IF ((i - 1) \div 2) % 2 = 0 THEN StrongGreenCandle
                     ELSE RedCandle]

\* every list of one candle less than, as many as and one more than the
\* lookback, and the alternating list with a lookback of 10 and of 12
OrderBlockArgs ==
    [fn : {"find_order_blocks"},
     candles : UNION {[1..n -> CandleShapes] :
                         n \in (MaxLookback - 1)..(MaxLookback + 1)},
     lookback : {MaxLookback}]
    \cup [fn : {"find_order_blocks"}, candles : {AlternatingCandles},
          lookback : {10, 12}]

InitBlocks ==
    /\ args \in OrderBlockArgs
    /\ result = NotCalled
    /\ state = Unused
    /\ response = Unused
    /\ prediction = Unused
    /\ node = Unused

CallFindOrderBlocks ==
    /\ args.fn = "find_order_blocks"
    /\ result = NotCalled
    /\ result' = Return(FindOrderBlocks(args.candles, args.lookback))
    /\ UNCHANGED <<state, response, prediction, args, node>>

NextBlocks == CallFindOrderBlocks

SpecBlocks == InitBlocks /\ [][NextBlocks]_vars

(***************************************************************************)
(* Claims about find_order_blocks (checked under SpecBlocks)               *)
(***************************************************************************)
\* the candle at position j of the window w is a bullish block: it is
\* bearish and immediately followed, inside the window, by two bullish
\* candles whose first close exceeds its high
C20_Bullish(w, j) ==
    /\ j + 2 <= Len(w)
    /\ w[j].close < w[j].open
    /\ w[j + 1].close > w[j + 1].open
    /\ w[j + 2].close > w[j + 2].open
    /\ w[j + 1].close > w[j].high

C20_Bearish(w, j) ==
    /\ j + 2 <= Len(w)
    /\ w[j].close > w[j].open
    /\ w[j + 1].close < w[j + 1].open
    /\ w[j + 2].close < w[j + 2].open
    /\ w[j + 1].close < w[j].low

\* the positions of the window that are order blocks, the first candle of
\* the window and the candle followed by the last two candles included
C20_Positions(w) == {j \in 1..Len(w) : C20_Bullish(w, j) \/ C20_Bearish(w, j)}

\* the (at most 3) greatest positions of a set
C20_MostRecent(positions) ==
    {j \in positions : Cardinality({k \in positions : k > j}) < 3}

\* C20: find_order_blocks returns exactly the (at most 3) most recent order
\* blocks of the trailing lookback window, in chronological order; every
\* candle of the window that matches the pattern is a candidate, including
\* the first candle of the window and the candle whose two followers are the
\* last two candles.
C20_MostRecentBlocks ==
    (Returned /\ Len(args.candles) >= args.lookback) =>
        LET w        == Trailing(args.candles, args.lookback)
            expected == C20_MostRecent(C20_Positions(w))
            blocks   == result.value
        IN  /\ Len(blocks) = Cardinality(expected)
            /\ \E pos \in [1..Len(blocks) -> expected] :
                  /\ \A i \in 1..(Len(blocks) - 1) : pos[i] < pos[i + 1]
                  /\ \A i \in 1..Len(blocks) :
                        /\ blocks[i].high = w[pos[i]].high
                        /\ blocks[i].low = w[pos[i]].low
                        /\ blocks[i].type =
                              (IF C20_Bullish(w, pos[i]) THEN "bullish"
                               ELSE "bearish")

(***************************************************************************)
(* AdvancedAnalysis.find_fair_value_gaps                                   *)
(***************************************************************************)
\* a gap as find_fair_value_gaps appends it; top + bottom is even
FairValueGap(type, top, bottom) ==
    [type |-> type, top |-> top, bottom |-> bottom,
     mid |-> (top + bottom) \div 2, size |-> top - bottom]

\* what one pass of the loop body appends for the candle at position j
\* (counted from 1) of the window
GapsAt(recent_candles, j) ==
    LET prev        == recent_candles[j - 1]
        next_candle == recent_candles[j + 1]
    IN  (IF prev.high < next_candle.low
         THEN <<FairValueGap("bullish", next_candle.low, prev.high)>> ELSE <<>>)
        \o (IF prev.low > next_candle.high
            THEN <<FairValueGap("bearish", prev.low, next_candle.high)>> ELSE <<>>)

RECURSIVE GapsBetween(_, _, _)
\* the gaps appended for the positions from, from + 1, ..., to, in order
GapsBetween(recent_candles, from, to) ==
    IF from > to THEN <<>>
    ELSE GapsAt(recent_candles, from) \o GapsBetween(recent_candles, from + 1, to)

\* seq[-5:]
LastFive(seq) == IF Len(seq) > 5 THEN SubSeq(seq, Len(seq) - 4, Len(seq)) ELSE seq

\* range(1, len(recent_candles) - 1) visits the positions 2 .. len - 1 when
\* counted from 1
FindFairValueGaps(candles, lookback) ==
    IF Len(candles) < lookback + 2 THEN <<>>
    ELSE LET recent_candles == Trailing(candles, lookback)
         IN  LastFive(GapsBetween(recent_candles, 2, Len(recent_candles) - 1))

(***************************************************************************)
(* Specification of find_fair_value_gaps as a pure function                *)
(***************************************************************************)
MaxGapLookback == 5

\* candles trading at 0.5-1.0, at 0.9-1.5 and at 1.2-2.0: the first and the
\* third leave a gap of 0.2 between them, the second overlaps both
LowCandle == [open |-> 12, close |-> 18, high |-> 20, low |-> 10]

MidCandle == [open |-> 20, close |-> 28, high |-> 30, low |-> 18]

HighCandle == [open |-> 26, close |-> 38, high |-> 40, low |-> 24]

GapCandleShapes == {LowCandle, MidCandle, HighCandle}

\* twelve candles alternating in pairs low, low, high, high: every interior
\* candle lies in a gap
GappingCandles ==
    [i \in 1..12 |-> IF ((i - 1) \div 2) % 2 = 0 THEN LowCandle ELSE HighCandle]

\* every list of as many candles as the lookback up to three more, and the
\* gapping list with a lookback of 10
FairValueGapArgs ==
    [fn : {"find_fair_value_gaps"},
     candles : UNION {[1..n -> GapCandleShapes] :
                         n \in MaxGapLookback..(MaxGapLookback + 3)},
     lookback : {MaxGapLookback}]
    \cup [fn : {"find_fair_value_gaps"}, candles : {GappingCandles},
          lookback : {10}]

InitGaps ==
    /\ args \in FairValueGapArgs
    /\ result = NotCalled
    /\ state = Unused
    /\ response = Unused
    /\ prediction = Unused
    /\ node = Unused

CallFindFairValueGaps ==
    /\ args.fn = "find_fair_value_gaps"
    /\ result = NotCalled
    /\ result' = Return(FindFairValueGaps(args.candles, args.lookback))
    /\ UNCHANGED <<state, response, prediction, args, node>>

NextGaps == CallFindFairValueGaps

SpecGaps == InitGaps /\ [][NextGaps]_vars

(***************************************************************************)
(* Claims about find_fair_value_gaps (checked under SpecGaps)              *)
(***************************************************************************)
C21_Bullish(c, i) == c[i - 1].high < c[i + 1].low

C21_Bearish(c, i) == c[i - 1].low > c[i + 1].high

\* the interior candles of the series that lie in a gap
C21_Positions(c) ==
    {i \in 2..(Len(c) - 1) : C21_Bullish(c, i) \/ C21_Bearish(c, i)}

\* the (at most 5) greatest positions of a set
C21_MostRecent(positions) ==
    {i \in positions : Cardinality({k \in positions : k > i}) < 5}

\* C21: find_fair_value_gaps reports, for each interior candle i of the
\* series, a bullish gap iff candle[i-1].high < candle[i+1].low and a bearish
\* gap iff candle[i-1].low > candle[i+1].high, and returns at most the 5 most
\* recent; every returned gap has size > 0, top > bottom and
\* bottom < mid < top; a series containing exactly one such gap yields
\* exactly one gap of the correct direction, whatever the series length.
C21_GapsOfSeries ==
    Returned =>
        LET c        == args.candles
            expected == C21_MostRecent(C21_Positions(c))
            gaps     == result.value
        IN  /\ Len(gaps) = Cardinality(expected)
            /\ \E pos \in [1..Len(gaps) -> expected] :
                  /\ \A k \in 1..(Len(gaps) - 1) : pos[k] < pos[k + 1]
                  /\ \A k \in 1..Len(gaps) :
                        gaps[k].type = (IF C21_Bullish(c, pos[k]) THEN "bullish"
                                        ELSE "bearish")
            /\ \A k \in 1..Len(gaps) :
                  /\ gaps[k].size > 0
                  /\ gaps[k].top > gaps[k].bottom
                  /\ gaps[k].bottom < gaps[k].mid /\ gaps[k].mid < gaps[k].top
            /\ Cardinality(C21_Positions(c)) = 1 => Len(gaps) = 1

(***************************************************************************)
(* ta_agent.calculate_atr                                                  *)
(***************************************************************************)
\* the true range of sample i (counted from 1, i >= 2), high-low only
TrueRangeHighLow(highs, lows, closes, i) ==
    highs[i] - lows[i]

\* the true range of sample i (counted from 1, i >= 2)
TrueRange(highs, lows, closes, i) ==
    Max(highs[i] - lows[i],
        Max(Abs(highs[i] - closes[i - 1]), Abs(lows[i] - closes[i - 1])))

RECURSIVE SumSeq(_)
\* sum(seq)
SumSeq(seq) == IF seq = <<>> THEN 0 ELSE Head(seq) + SumSeq(Tail(seq))

\* seq[-n:] for 1 <= n
LastN(seq, n) == IF Len(seq) > n THEN SubSeq(seq, Len(seq) - n + 1, Len(seq)) ELSE seq

\* The prices of the samples are multiples of 12 ticks, so that the division
\* by a period of 1 to 4 is exact.  The lists are read by index, and a list
\* shorter than highs raises IndexError, which the bare except turns into 0.
CalculateAtr(highs, lows, closes, period) ==
    IF Len(highs) < period + 1 THEN 0
    ELSE IF Len(lows) < Len(highs) \/ Len(closes) < Len(highs) - 1 THEN 0
    ELSE LET tr_list == [k \in 1..(Len(highs) - 1) |->
                            TrueRange(highs, lows, closes, k + 1)]
         IN  SumSeq(LastN(tr_list, period)) \div period

(***************************************************************************)
(* Specification of calculate_atr as a pure function                       *)
(***************************************************************************)
MaxAtrPeriod == 3

MaxAtrSamples == 4

\* a sample without movement, one with a range around the same close, and one
\* that opened far above: its distance to the previous close exceeds its range
FlatSample == [high |-> 240, low |-> 240, close |-> 240]

RangingSample == [high |-> 288, low |-> 192, close |-> 240]

GappedSample == [high |-> 480, low |-> 432, close |-> 456]

AtrSamples == {FlatSample, RangingSample, GappedSample}

Column(samples, field) == [i \in 1..Len(samples) |-> samples[i][field]]

\* the three lists ta_node builds from one list of candles
AtrArgs ==
    {[fn |-> "calculate_atr", highs |-> Column(c, "high"),
      lows |-> Column(c, "low"), closes |-> Column(c, "close"), period |-> p] :
        c \in UNION {[1..n -> AtrSamples] : n \in 0..MaxAtrSamples},
        p \in 1..MaxAtrPeriod}

InitAtr ==
    /\ args \in AtrArgs
    /\ result = NotCalled
    /\ state = Unused
    /\ response = Unused
    /\ prediction = Unused
    /\ node = Unused

CallCalculateAtr ==
    /\ args.fn = "calculate_atr"
    /\ result = NotCalled
    /\ result' = Return(CalculateAtr(args.highs, args.lows, args.closes, args.period))
    /\ UNCHANGED <<state, response, prediction, args, node>>

NextAtr == CallCalculateAtr

SpecAtr == InitAtr /\ [][NextAtr]_vars

(***************************************************************************)
(* Claims about calculate_atr (checked under SpecAtr)                      *)
(***************************************************************************)
\* max(h - l, |h - prevClose|, |l - prevClose|) of sample i
C22_TrueRange(i) ==
    LET h == args.highs[i]
        l == args.lows[i]
        prevClose == args.closes[i - 1]
    IN  CHOOSE t \in {h - l, Abs(h - prevClose), Abs(l - prevClose)} :
            /\ t >= h - l
            /\ t >= Abs(h - prevClose)
            /\ t >= Abs(l - prevClose)

RECURSIVE C22_SumFrom(_)
\* the sum of the true ranges of the samples i .. last
C22_SumFrom(i) ==
    IF i > Len(args.highs) THEN 0 ELSE C22_TrueRange(i) + C22_SumFrom(i + 1)

C22_Constant ==
    \A i, j \in 1..Len(args.highs) :
        args.highs[i] = args.closes[j] /\ args.lows[i] = args.closes[j]

\* C22: calculate_atr returns 0.0 when fewer than period + 1 samples are
\* supplied; otherwise it returns the mean of the last `period` true ranges
\* max(h - l, |h - prevClose|, |l - prevClose|); the result is never negative
\* and is exactly 0 for a constant price series.
C22_MeanOfTrueRanges ==
    Returned =>
        LET n == Len(args.highs)
        IN  /\ n < args.period + 1 => result.value = 0
            /\ n >= args.period + 1 =>
                  result.value * args.period = C22_SumFrom(n - args.period + 1)
            /\ result.value >= 0
            /\ C22_Constant => result.value = 0

\* a call with more samples than needed whose mean is decided by the distance
\* to the previous close
C22_Witness ==
    /\ Returned
    /\ Len(args.highs) > args.period + 1
    /\ result.value > 0
    /\ \E i \in (Len(args.highs) - args.period + 1)..Len(args.highs) :
          C22_TrueRange(i) > args.highs[i] - args.lows[i]

\* a constant series long enough to be averaged
C22_ConstantWitness ==
    /\ Returned
    /\ Len(args.highs) >= args.period + 1
    /\ C22_Constant
    /\ result.value = 0

(***************************************************************************)
(* indicators.calculate_rsi, calculate_macd, calculate_ema                 *)
(*                                                                         *)
(* The indicator itself is computed by TA-Lib, which is not part of the    *)
(* repository.  Of its output the functions read the last element only:    *)
(* the output array has the length of the input, its first `lookback`      *)
(* elements are NaN, and the value of a defined element is left open here  *)
(* (the `computed` parameter).  On an empty input TA-Lib either raises or  *)
(* returns an empty array, depending on its version.                       *)
(***************************************************************************)
IndexError == "IndexError"

TalibError == "Exception"

NaN == [nan |-> TRUE]

Number(value) == [nan |-> FALSE, value |-> value]

\* the output array of a TA-Lib function with the given lookback
TalibOutput(n, lookback, computed) ==
    [i \in 1..n |-> IF i <= lookback THEN NaN ELSE Number(computed)]

\* RSI needs period + 1 closes, EMA period closes, MACD slow + signal - 1
RsiLookback(period) == period

EmaLookback(period) == period - 1

MacdLookback(fast, slow, signal) == (Max(fast, slow) - 1) + (signal - 1)

\* float(x) if not np.isnan(x) else default
OrDefault(x, default) == IF x.nan THEN default ELSE x.value

CalculateRsi(closes, period, computed, talib_raises) ==
    LET rsi == TalibOutput(Len(closes), RsiLookback(period), computed)
    IN  IF closes = <<>> /\ talib_raises THEN Raised(TalibError)
        ELSE IF rsi = <<>> THEN Raised(IndexError)
        ELSE Return(OrDefault(rsi[Len(rsi)], 50))

CalculateMacd(closes, fast, slow, signal, computed, talib_raises) ==
    LET lookback    == MacdLookback(fast, slow, signal)
        macd_line   == TalibOutput(Len(closes), lookback, computed.line)
        signal_line == TalibOutput(Len(closes), lookback, computed.signal)
        histogram   == TalibOutput(Len(closes), lookback,
                                   computed.line - computed.signal)
    IN  IF closes = <<>> /\ talib_raises THEN Raised(TalibError)
        ELSE IF macd_line = <<>> THEN Raised(IndexError)
        ELSE Return([line      |-> OrDefault(macd_line[Len(macd_line)], 0),
                     signal    |-> OrDefault(signal_line[Len(signal_line)], 0),
                     histogram |-> OrDefault(histogram[Len(histogram)], 0)])

CalculateEma(closes, period, computed, talib_raises) ==
    LET ema == TalibOutput(Len(closes), EmaLookback(period), computed)
    IN  IF closes = <<>> /\ talib_raises THEN Raised(TalibError)
        ELSE IF ema = <<>> THEN Raised(IndexError)
        ELSE Return(OrDefault(ema[Len(ema)], closes[Len(closes)]))

(***************************************************************************)
(* Specification of the indicator functions as pure functions              *)
(***************************************************************************)
MaxCloses == 5

MaxIndicatorPeriod == 3

ClosesLists == UNION {[1..n -> {240, 288}] : n \in 0..MaxCloses}

\* TA-Lib accepts periods from 2
IndicatorArgs ==
    [fn : {"calculate_rsi", "calculate_ema"}, closes : ClosesLists,
     period : 2..MaxIndicatorPeriod]
    \cup [fn : {"calculate_macd"}, closes : ClosesLists, fast : {2},
          slow : {MaxIndicatorPeriod}, signal : {2}]
    \cup AtrArgs

InitIndicators ==
    /\ args \in IndicatorArgs
    /\ result = NotCalled
    /\ state = Unused
    /\ response = Unused
    /\ prediction = Unused
    /\ node = Unused

CallCalculateRsi ==
    /\ args.fn = "calculate_rsi"
    /\ result = NotCalled
    /\ \E computed \in {30, 50, 70}, talib_raises \in BOOLEAN :
          result' = CalculateRsi(args.closes, args.period, computed, talib_raises)
    /\ UNCHANGED <<state, response, prediction, args, node>>

CallCalculateMacd ==
    /\ args.fn = "calculate_macd"
    /\ result = NotCalled
    /\ \E computed \in [line : {-4, 0, 4}, signal : {-2, 2}], talib_raises \in BOOLEAN :
          result' = CalculateMacd(args.closes, args.fast, args.slow, args.signal,
                                  computed, talib_raises)
    /\ UNCHANGED <<state, response, prediction, args, node>>

CallCalculateEma ==
    /\ args.fn = "calculate_ema"
    /\ result = NotCalled
    /\ \E computed \in {250, 280}, talib_raises \in BOOLEAN :
          result' = CalculateEma(args.closes, args.period, computed, talib_raises)
    /\ UNCHANGED <<state, response, prediction, args, node>>

NextIndicators ==
    \/ CallCalculateRsi
    \/ CallCalculateMacd
    \/ CallCalculateEma
    \/ CallCalculateAtr

SpecIndicators == InitIndicators /\ [][NextIndicators]_vars

(***************************************************************************)
(* Claims about the indicator functions (checked under SpecIndicators)     *)
(***************************************************************************)
\* C23: no indicator function raises on insufficient history; each returns
\* its documented neutral default for every input length, the empty series
\* included: calculate_rsi 50.0 when len(closes) <= period, calculate_ema the
\* last close when fewer than `period` closes are supplied, calculate_macd
\* 0.0 for each undefined field, and calculate_atr 0.0.
C23_NeutralDefaults ==
    /\ result.status # "raised"
    /\ Returned =>
          /\ (args.fn = "calculate_rsi" /\ Len(args.closes) <= args.period)
                => result.value = 50
          /\ (args.fn = "calculate_ema" /\ Len(args.closes) < args.period)
                => result.value = args.closes[Len(args.closes)]
          /\ (args.fn = "calculate_macd"
              /\ Len(args.closes) < args.slow + args.signal - 1)
                => result.value = [line |-> 0, signal |-> 0, histogram |-> 0]
          /\ (args.fn = "calculate_atr" /\ Len(args.highs) < args.period + 1)
                => result.value = 0

\* the defaults alone, for a history that is short but not empty
C23_DefaultsOfNonEmpty ==
    (args.fn # "calculate_atr" /\ args.closes # <<>>) => C23_NeutralDefaults

(***************************************************************************)
(* market_structure.detect_choch_bos                                       *)
(***************************************************************************)
\* [s for s in swings if s["type"] == type]
SwingsOfType(swings, type) ==
    LET Test(s) == s.type = type IN SelectSeq(swings, Test)

\* the structure record; a key that is None is left out
Structure(bos) == IF bos = None THEN EmptyDict ELSE [k \in {"bos"} |-> bos]

\* as detect_choch_bos, but a swing equal to the prior one breaks structure
DetectChochBosInclusive(swings) ==
    IF Len(swings) < 3 THEN Structure(None)
    ELSE LET recent_highs == SwingsOfType(LastFive(swings), "high")
             recent_lows  == SwingsOfType(LastFive(swings), "low")
             nh == Len(recent_highs)
             nl == Len(recent_lows)
         IN  IF nh >= 2 /\ recent_highs[nh].price >= recent_highs[nh - 1].price
             THEN Structure("bullish")
             ELSE IF nl >= 2 /\ recent_lows[nl].price <= recent_lows[nl - 1].price
             THEN Structure("bearish")
             ELSE Structure(None)

DetectChochBos(swings) ==
    IF Len(swings) < 3 THEN Structure(None)
    ELSE LET recent_highs == SwingsOfType(LastFive(swings), "high")
             recent_lows  == SwingsOfType(LastFive(swings), "low")
             nh == Len(recent_highs)
             nl == Len(recent_lows)
         IN  IF nh >= 2 /\ recent_highs[nh].price > recent_highs[nh - 1].price
             THEN Structure("bullish")
             ELSE IF nl >= 2 /\ recent_lows[nl].price < recent_lows[nl - 1].price
             THEN Structure("bearish")
             ELSE Structure(None)

(***************************************************************************)
(* Specification of detect_choch_bos as a pure function                    *)
(***************************************************************************)
MaxSwings == 6

\* swing lists as detect_swings returns them: sorted by timestamp
SwingLists ==
    UNION {{[i \in 1..n |-> [type |-> kinds[i].type, price |-> kinds[i].price,
                             timestamp |-> i]] :
               kinds \in [1..n -> [type : {"high", "low"}, price : {100, 120}]]} :
           n \in 0..MaxSwings}

StructureArgs == [fn : {"detect_choch_bos"}, swings : SwingLists]

InitStructure ==
    /\ args \in StructureArgs
    /\ result = NotCalled
    /\ state = Unused
    /\ response = Unused
    /\ prediction = Unused
    /\ node = Unused

CallDetectChochBos ==
    /\ args.fn = "detect_choch_bos"
    /\ result = NotCalled
    /\ result' = Return(DetectChochBos(args.swings))
    /\ UNCHANGED <<state, response, prediction, args, node>>

NextStructure == CallDetectChochBos

SpecStructure == InitStructure /\ [][NextStructure]_vars

(***************************************************************************)
(* Claims about detect_choch_bos (checked under SpecStructure)             *)
(***************************************************************************)
\* the positions from `from` on that hold a swing of the type
C24_PositionsOf(type, from) ==
    {i \in from..Len(args.swings) : args.swings[i].type = type}

\* the latest swing of the type from `from` on compares as `Before` with the
\* one before it
C24_LatestBreaks(type, from, Before(_, _)) ==
    \E i, j \in C24_PositionsOf(type, from) :
        /\ i < j
        /\ \A k \in C24_PositionsOf(type, from) : k <= i \/ k = j
        /\ Before(args.swings[i].price, args.swings[j].price)

C24_Rising(prior, latest) == latest > prior

C24_Falling(prior, latest) == latest < prior

\* the result claimed when the swings from `from` on are compared
C24_Expected(from) ==
    IF Len(args.swings) < 3 THEN Structure(None)
    ELSE IF C24_LatestBreaks("high", from, C24_Rising) THEN Structure("bullish")
    ELSE IF C24_LatestBreaks("low", from, C24_Falling) THEN Structure("bearish")
    ELSE Structure(None)

\* C24: detect_choch_bos returns {choch: none, bos: none} for fewer than 3
\* swings and never reports a CHOCH; for 3 or more swings it compares the two
\* most recent swing highs of the swing list and returns bos bullish iff the
\* latest exceeds the prior; otherwise it compares the two most recent swing
\* lows and returns bos bearish iff the latest is lower than the prior;
\* otherwise bos is none.
C24_StructureOfSwingList ==
    Returned =>
        /\ "choch" \notin DOMAIN result.value
        /\ result.value = C24_Expected(1)

\* C24 (amended): as C24, but the swing highs and swing lows compared are
\* those among the last five swings of the list.
C24_StructureOfLastFive ==
    Returned =>
        /\ "choch" \notin DOMAIN result.value
        /\ result.value = C24_Expected(Max(1, Len(args.swings) - 4))

\* a break of structure decided by the last five swings although the list
\* holds an older swing high
C24_Witness ==
    /\ Returned
    /\ Len(args.swings) > 5
    /\ C24_PositionsOf("high", 1) # C24_PositionsOf("high", Len(args.swings) - 4)
    /\ "bos" \in DOMAIN result.value

(***************************************************************************)
(* ta_agent.determine_trend                                                *)
(*                                                                         *)
(* emas holds ema20 and ema50; an EMA that is None is left out.  An empty  *)
(* closes list (IndexError) and an ema20 of None (TypeError) end in the    *)
(* except branch.  x > ema20 * 1.01 is compared as 100 x > 101 ema20.      *)
(***************************************************************************)
\* as determine_trend, but a supplied ema50 alone decides
DetermineTrendStackDecides(closes, emas) ==
    IF closes = <<>> \/ "ema20" \notin DOMAIN emas THEN "unknown"
    ELSE LET current_price == closes[Len(closes)]
             ema20 == emas.ema20
             ema50 == Get(emas, "ema50", 0)
         IN  IF ema50 # 0
             THEN IF current_price > ema20 /\ ema20 > ema50 THEN "bullish"
                  ELSE IF current_price < ema20 /\ ema20 < ema50 THEN "bearish"
                  ELSE "sideways"
             ELSE IF 100 * current_price > 101 * ema20 THEN "bullish"
             ELSE IF 100 * current_price < 99 * ema20 THEN "bearish"
             ELSE "sideways"

DetermineTrend(closes, emas) ==
    IF closes = <<>> \/ "ema20" \notin DOMAIN emas THEN "unknown"
    ELSE LET current_price == closes[Len(closes)]
             ema20 == emas.ema20
             ema50 == Get(emas, "ema50", 0)
         IN  IF ema50 # 0 /\ current_price > ema20 /\ ema20 > ema50 THEN "bullish"
             ELSE IF ema50 # 0 /\ current_price < ema20 /\ ema20 < ema50 THEN "bearish"
             ELSE IF 100 * current_price > 101 * ema20 THEN "bullish"
             ELSE IF 100 * current_price < 99 * ema20 THEN "bearish"
             ELSE "sideways"

(***************************************************************************)
(* Specification of determine_trend as a pure function                     *)
(***************************************************************************)
MaxTrendCloses == 2

\* closes around 1% below and above an ema20 of 1000 ticks
TrendCloses == {900, 989, 990, 991, 1000, 1009, 1010, 1011, 1100}

Ema50s == {0, 950, 995, 1000, 1005, 1050}

TrendEmas ==
    {EmptyDict}
    \cup {[k \in {"ema20"} |-> 1000]}
    \cup {[k \in {"ema20", "ema50"} |-> IF k = "ema20" THEN 1000 ELSE e] : e \in Ema50s}

TrendArgs ==
    [fn : {"determine_trend"},
     closes : UNION {[1..n -> TrendCloses] : n \in 0..MaxTrendCloses},
     emas : TrendEmas]

InitTrend ==
    /\ args \in TrendArgs
    /\ result = NotCalled
    /\ state = Unused
    /\ response = Unused
    /\ prediction = Unused
    /\ node = Unused

CallDetermineTrend ==
    /\ args.fn = "determine_trend"
    /\ result = NotCalled
    /\ result' = Return(DetermineTrend(args.closes, args.emas))
    /\ UNCHANGED <<state, response, prediction, args, node>>

NextTrend == CallDetermineTrend

SpecTrend == InitTrend /\ [][NextTrend]_vars

(***************************************************************************)
(* Claims about determine_trend (checked under SpecTrend)                  *)
(***************************************************************************)
C25_Price == args.closes[Len(args.closes)]

C25_HasEma50 == "ema50" \in DOMAIN args.emas /\ args.emas.ema50 # 0

C25_Stacked ==
    /\ C25_HasEma50
    /\ \/ C25_Price > args.emas.ema20 /\ args.emas.ema20 > args.emas.ema50
       \/ C25_Price < args.emas.ema20 /\ args.emas.ema20 < args.emas.ema50

C25_SidewaysWitness ==
    /\ Returned
    /\ args.closes # <<>>
    /\ C25_HasEma50
    /\ result.value = "sideways"
    /\ C25_Price # args.emas.ema20

(***************************************************************************)
(* graph.parse_query_node                                                  *)
(*                                                                         *)
(* A query is the set of its words.  The keyword lists are searched as     *)
(* substrings of the lower-cased query; Occurring gives, for each word of  *)
(* the vocabulary, the keywords and timeframe patterns it contains.  The   *)
(* symbol, exchange and market fields of the state are not modelled.       *)
(***************************************************************************)
Occurring(word) ==
    CASE word = "scalp"   -> {"scalp"}
      [] word = "15m"     -> {"5m", "15m"}
      [] word = "today"   -> {"today"}
      [] word = "hourly"  -> {"hourly"}
      [] word = "swing"   -> {"swing"}
      [] word = "invest"  -> {"invest"}
      [] OTHER            -> {}

\* any(keyword in query_lower for keyword in keywords)
AnyIn(keywords, query) == \E word \in query : Occurring(word) \cap keywords # {}

UltraScalpingKeywords ==
    {"session", "london session", "new york session", "ny session",
     "asian session", "tokyo session", "opening session", "closing session",
     "scalp", "quick trade", "quick move", "quick flip", "right now",
     "immediate", "instantly", "real time", "realtime", "1 minute", "1m",
     "5 minute", "5m", "one minute", "five minute", "minute chart",
     "minute timeframe", "second", "seconds", "next candle", "next bar",
     "current candle"}

ScalpingKeywords ==
    {"intraday", "intra day", "intra-day", "next move", "short move",
     "quick entry", "next hour", "within hour", "couple hours", "15 minute",
     "15m", "fifteen minute", "fast trade", "rapid"}

ShortTermKeywords ==
    {"today", "day trad", "end of day", "eod", "this afternoon",
     "this evening", "this morning", "few hours", "couple of hours",
     "next few hours", "short term", "short-term", "hourly", "1 hour", "1h",
     "4 hour", "4h"}

SwingKeywords ==
    {"swing", "swing trade", "swing trading", "this week", "few days",
     "couple days", "next week", "end of week", "eow", "weekly target",
     "daily chart", "daily timeframe", "1d"}

LongTermKeywords ==
    {"long term", "long-term", "invest", "hold", "hodl", "next month",
     "next year", "this month", "this quarter", "weeks", "months", "years",
     "position trad", "position size", "monthly", "weekly chart", "1w"}

DetermineAnalysisType(query) ==
    IF AnyIn(UltraScalpingKeywords, query) THEN "ultra_scalping"
    ELSE IF AnyIn(ScalpingKeywords, query) THEN "scalping"
    ELSE IF AnyIn(ShortTermKeywords, query) THEN "short_term"
    ELSE IF AnyIn(SwingKeywords, query) THEN "swing"
    ELSE IF AnyIn(LongTermKeywords, query) THEN "long_term"
    ELSE "short_term"

\* the timeframes in the order of the pattern table
AllTimeframes == <<"1m", "5m", "15m", "1h", "4h", "1d", "1w">>

TimeframePatterns(tf) ==
    CASE tf = "1m"  -> {"1m", "1 min", "one minute", "minute chart"}
      [] tf = "5m"  -> {"5m", "5 min", "five minute"}
      [] tf = "15m" -> {"15m", "15 min", "fifteen minute"}
      [] tf = "1h"  -> {"1h", "1 hour", "hourly", "hour chart"}
      [] tf = "4h"  -> {"4h", "4 hour"}
      [] tf = "1d"  -> {"1d", "daily", "day chart"}
      [] tf = "1w"  -> {"1w", "weekly", "week chart"}

TimeframeMap(analysis_type) ==
    CASE analysis_type = "ultra_scalping" -> <<"1m", "5m", "15m">>
      [] analysis_type = "scalping"       -> <<"5m", "15m", "1h">>
      [] analysis_type = "short_term"     -> <<"15m", "1h", "4h">>
      [] analysis_type = "swing"          -> <<"1h", "4h", "1d">>
      [] analysis_type = "long_term"      -> <<"4h", "1d", "1w">>
      [] OTHER                            -> <<"15m", "1h", "4h">>

\* the higher timeframes added to a single explicit one
Complementary(base_tf) ==
    CASE base_tf = "1m"  -> <<"5m", "15m">>
      [] base_tf = "5m"  -> <<"15m", "1h">>
      [] base_tf = "15m" -> <<"1h", "4h">>
      [] base_tf = "1h"  -> <<"4h", "1d">>
      [] base_tf = "4h"  -> <<"1d", "1w">>
      [] base_tf = "1d"  -> <<"1w">>
      [] OTHER           -> <<>>

SelectTimeframes(query, analysis_type) ==
    LET Mentioned(tf) == AnyIn(TimeframePatterns(tf), query)
        explicit_timeframes == SelectSeq(AllTimeframes, Mentioned)
        extended == IF Len(explicit_timeframes) = 1
                    THEN explicit_timeframes \o Complementary(explicit_timeframes[1])
                    ELSE explicit_timeframes
    IN  IF explicit_timeframes # <<>>
        THEN SubSeq(extended, 1, Min(3, Len(extended)))
        ELSE TimeframeMap(analysis_type)

\* the update parse_query_node returns; an exception of the symbol detection
\* ends in the fallback of the except branch
ParseQueryNode(state_, failed) ==
    IF failed
    THEN [query |-> state_.query, timeframes |-> <<"1h">>,
          analysis_type |-> "short_term"]
    ELSE LET analysis_type == DetermineAnalysisType(state_.query)
         IN  [query |-> state_.query,
              timeframes |-> SelectTimeframes(state_.query, analysis_type),
              analysis_type |-> analysis_type]

(***************************************************************************)
(* Specification of a whole run of the workflow: parse_query, ta, news     *)
(* unless skipped, predict.  Every node returns (each has its own except   *)
(* branch), so a run that can take a step takes it.                        *)
(***************************************************************************)
MaxQueryWords == 2

Vocabulary == {"scalp", "15m", "today", "hourly", "swing", "invest", "btc"}

Queries == {q \in SUBSET Vocabulary : Cardinality(q) <= MaxQueryWords}

\* a fetch that fails, candles whose analysis raises, and analysable candles
RunOutcomes ==
    {FetchException,
     Candles(0, AnalysisRecord("bullish", 50, 44, 2500, 3000, 2000, <<>>)),
     Candles(2400, AnalysisRecord("bullish", 50, 44, 2500, 3000, 2000, <<>>))}

\* the timeframes a query can make ta_node fetch
Fetchable(query) ==
    Requested(ParseQueryNode([query |-> query], TRUE).timeframes)
    \cup Requested(ParseQueryNode([query |-> query], FALSE).timeframes)

RunNews ==
    {[sentiment |-> "bullish", news_impact |-> "high"],
     [error |-> "fetch failed", sentiment |-> "neutral"]}

InitRun ==
    /\ state \in [query : Queries]
    /\ args \in [fn : {"prediction_workflow"},
                 results : [Fetchable(state.query) -> RunOutcomes],
                 news_data : RunNews]
    /\ node = "parse_query"
    /\ response = NotCalled
    /\ prediction = NotCalled
    /\ result = Unused

ParseQueryRun ==
    /\ node = "parse_query"
    /\ node' = "ta"
    /\ \E failed \in BOOLEAN : state' = ParseQueryNode(state, failed) @@ state
    /\ UNCHANGED <<response, prediction, args, result>>

NextRun == ParseQueryRun \/ TaNodeRun \/ NewsNodeRun \/ FlowPredictRun

SpecRun == InitRun /\ [][NextRun]_vars

\* the step of the predict node, which returns whatever happens inside it;
\* within SpecRun it is a step of FlowPredictRun and is enabled exactly when
\* FlowPredictRun is
PredictReturns == node = "predict" /\ node' = "END"

\* every node that is entered returns, and the graph then calls the next one
SpecRunFair ==
    /\ SpecRun
    /\ WF_vars(ParseQueryRun)
    /\ WF_vars(TaNodeRun)
    /\ WF_vars(NewsNodeRun)
    /\ WF_node(PredictReturns)

(***************************************************************************)
(* Claims about a run of the workflow (checked under SpecRunFair)          *)
(***************************************************************************)
\* the step from one node to the next follows the order of the graph
C26_Order ==
    node' # node =>
        \/ node = "parse_query" /\ node' = "ta"
        \/ /\ node = "ta" /\ node' = "news"
           /\ state.analysis_type \notin {"ultra_scalping", "scalping"}
        \/ /\ node = "ta" /\ node' = "predict"
           /\ state.analysis_type \in {"ultra_scalping", "scalping"}
        \/ node = "news" /\ node' = "predict"
        \/ node = "predict" /\ node' = "END"

\* a step changes the state only by moving on to the next node, and the
\* prediction is written once, by the predict node
C26_OncePerNode ==
    /\ node' = node => UNCHANGED vars
    /\ prediction' # prediction =>
          node = "predict" /\ prediction = NotCalled /\ node' = "END"

\* no requested timeframe brought candles, or the analysis of one raised
C26_TaFailed ==
    \/ \A tf \in Requested(state.timeframes) : args.results[tf].kind # "candles"
    \/ \E tf \in Requested(state.timeframes) :
          args.results[tf].kind = "candles" /\ args.results[tf].first_close = 0

\* the news node ran and its fetch failed
C26_NewsFailed ==
    /\ state.analysis_type \notin {"ultra_scalping", "scalping"}
    /\ "error" \in DOMAIN args.news_data

\* a failing node has recorded its error in the state, and the run still
\* ends with a prediction record
C26_Ended ==
    /\ node = "END"
    /\ prediction.status = "returned"
    /\ "direction" \in DOMAIN prediction.value
    /\ C26_TaFailed => "error" \in DOMAIN state.ta_data
    /\ C26_NewsFailed => "error" \in DOMAIN state.news_data
    /\ (C26_TaFailed \/ C26_NewsFailed) => "error" \in DOMAIN prediction.value

C26_NewsWitness ==
    /\ node = "END"
    /\ C26_NewsFailed
    /\ ~C26_TaFailed
    /\ prediction.status = "returned"

(***************************************************************************)
(* Claims about the primary timeframe of ta_node (checked under SpecFlow)  *)
(***************************************************************************)
\* C27: whenever ta_node returns without an error, primary_timeframe is a
\* member of timeframes_analyzed and primary_analysis is that timeframe's
\* non-empty analysis record (with current_price and atr), for every pattern
\* of per-timeframe fetch failures that leaves at least one timeframe with
\* data.
C27_PrimaryAnalysed ==
    (TaDone /\ "error" \notin DOMAIN state.ta_data) =>
        /\ state.ta_data.primary_timeframe \in state.ta_data.timeframes_analyzed
        /\ state.ta_data.primary_analysis # EmptyDict
        /\ {"current_price", "atr"} \subseteq DOMAIN state.ta_data.primary_analysis
        /\ state.ta_data.primary_analysis
              = state.ta_data.multi_timeframe_analysis[state.ta_data.primary_timeframe]

(***************************************************************************)
(* outcome_tracker and prediction_service: recording the outcome of a      *)
(* stored prediction                                                       *)
(*                                                                         *)
(* One prediction, saved by save_prediction: its document in the           *)
(* predictions collection and the prediction_data cached for 30 seconds.   *)
(* A field that is None is left out.  Prices are plain numbers, accuracy   *)
(* scores are in tenths of a point, outcome_checked_at is a logical clock. *)
(***************************************************************************)
\* the prediction_data the API hands to save_prediction; it has no _id, no
\* user_id, no created_at and no outcome
PredictionData ==
    [symbol |-> "BTCUSDT", direction |-> "BULLISH", confidence |-> 70,
     entry_price |-> 100, stop_loss |-> 90, take_profits |-> <<110>>]

\* the document save_prediction inserts: outcome, outcome_checked_at and
\* accuracy_score are None
MongoDoc ==
    [_id |-> "p1", user_id |-> "u1", symbol |-> "BTCUSDT",
     direction |-> "BULLISH", confidence |-> 70, entry_price |-> 100,
     stop_loss |-> 90, take_profits |-> <<110>>, created_at |-> 0]

\* _calculate_accuracy; a stop_loss of 0 stands for None
CalculateAccuracy(direction, entry_price, actual_price, stop_loss, take_profits, confidence) ==
    LET price_moved_correctly ==
            IF direction = "BULLISH" THEN actual_price > entry_price
            ELSE actual_price < entry_price
        hit_stop_loss ==
            IF stop_loss = 0 THEN FALSE
            ELSE IF direction = "BULLISH" THEN actual_price <= stop_loss
            ELSE actual_price >= stop_loss
        tps_hit ==
            Cardinality({i \in 1..Len(take_profits) :
                \/ direction = "BULLISH" /\ actual_price >= take_profits[i]
                \/ direction = "BEARISH" /\ actual_price <= take_profits[i]})
        tp_percentage ==
            IF take_profits = <<>> THEN 100
            ELSE (tps_hit * 100) \div Len(take_profits)
    IN  IF hit_stop_loss THEN [outcome |-> "LOSS", accuracy_score |-> 0]
        ELSE IF price_moved_correctly /\ tps_hit > 0
        THEN [outcome |-> "WIN",
              accuracy_score |-> Min(1000, tp_percentage * 7 + confidence * 3)]
        ELSE IF price_moved_correctly
        THEN [outcome |-> "PARTIAL", accuracy_score |-> Min(1000, confidence * 5)]
        ELSE [outcome |-> "LOSS", accuracy_score |-> 0]

\* get_prediction_by_id: the cached copy if there is one.  On a miss the
\* document is found, but caching it raises TypeError (json.dumps of the
\* datetime created_at), which the except branch turns into None.
GetPredictionById(stores) ==
    IF stores.cached THEN Return(PredictionData) ELSE Return(EmptyDict)

\* update_prediction_outcome: update_one filters on _id only
UpdatePredictionOutcome(stores, checked) ==
    [stores EXCEPT
        !.predictions = [outcome |-> checked.outcome,
                         accuracy_score |-> checked.accuracy_score,
                         actual_price |-> checked.actual_price,
                         outcome_checked_at |-> stores.now + 1] @@ @,
        !.now = @ + 1]

\* _save_training_data: str(prediction["_id"]) raises KeyError for a copy
\* without _id, and the except branch saves nothing
SaveTrainingData(stores, checked) ==
    IF "_id" \notin DOMAIN checked.prediction THEN stores
    ELSE [stores EXCEPT !.training_data =
             Append(@, [prediction_id |-> checked.prediction._id,
                        outcome |-> checked.outcome,
                        actual_price |-> checked.actual_price])]

\* the outcome of a fetched copy at a price
Checked(copy, actual_price) ==
    [prediction |-> copy, actual_price |-> actual_price]
    @@ CalculateAccuracy(Get(copy, "direction", "NEUTRAL"), Get(copy, "entry_price", 0),
                         actual_price, Get(copy, "stop_loss", 0),
                         Get(copy, "take_profits", <<>>), Get(copy, "confidence", 50))

(***************************************************************************)
(* Specification of manual_check calls running beside the background       *)
(* checker.  Each await is a point where the other coroutines run.         *)
(***************************************************************************)
MaxManualChecks == 2

MaxCheckerRuns == 2

Checker == 0

ManualChecks == 1..MaxManualChecks

\* what _get_current_price returns; 0 stands for None
ActualPrices == {0, 80, 105, 120}

InitOutcome ==
    /\ state = [predictions |-> MongoDoc, cached |-> TRUE, ready |-> FALSE,
                training_data |-> <<>>, now |-> 0, runs |-> 0]
    /\ node = [p \in {Checker} \cup ManualChecks |->
                  IF p = Checker THEN "sleep" ELSE "called"]
    /\ args = [p \in {Checker} \cup ManualChecks |-> EmptyDict]
    /\ result = [m \in ManualChecks |-> NotCalled]
    /\ response = Unused
    /\ prediction = Unused

\* the cached prediction_data expires after 30 seconds
CacheExpires ==
    /\ state.cached
    /\ state' = [state EXCEPT !.cached = FALSE]
    /\ UNCHANGED <<response, prediction, args, result, node>>

\* the prediction is older than a minute and than its timeframe
TimeframeElapses ==
    /\ ~state.cached
    /\ ~state.ready
    /\ state' = [state EXCEPT !.ready = TRUE]
    /\ UNCHANGED <<response, prediction, args, result, node>>

\* manual_check up to the await of the price
ManualRead(m) ==
    /\ node[m] = "called"
    /\ LET found == GetPredictionById(state).value
       IN  IF found = EmptyDict
           THEN /\ result' = [result EXCEPT ![m] = Return([success |-> FALSE,
                                  message |-> "Prediction not found"])]
                /\ node' = [node EXCEPT ![m] = "done"]
                /\ args' = args
           ELSE IF "outcome" \in DOMAIN found
           THEN /\ result' = [result EXCEPT ![m] = Return([success |-> FALSE,
                                  message |-> "Outcome already checked"])]
                /\ node' = [node EXCEPT ![m] = "done"]
                /\ args' = args
           ELSE /\ args' = [args EXCEPT ![m] = [prediction |-> found]]
                /\ node' = [node EXCEPT ![m] = "price"]
                /\ result' = result
    /\ UNCHANGED <<state, response, prediction>>

\* the price arrives; the outcome is calculated up to the await of the update
ManualPrice(m) ==
    /\ node[m] = "price"
    /\ \E actual_price \in ActualPrices :
          IF actual_price = 0
          THEN /\ result' = [result EXCEPT ![m] = Return([success |-> FALSE,
                                 message |-> "Could not fetch price"])]
               /\ node' = [node EXCEPT ![m] = "done"]
               /\ args' = args
          ELSE /\ args' = [args EXCEPT ![m] = Checked(args[m].prediction, actual_price)]
               /\ node' = [node EXCEPT ![m] = "update"]
               /\ result' = result
    /\ UNCHANGED <<state, response, prediction>>

ManualUpdate(m) ==
    /\ node[m] = "update"
    /\ state' = UpdatePredictionOutcome(state, args[m])
    /\ node' = [node EXCEPT ![m] = "save"]
    /\ UNCHANGED <<response, prediction, args, result>>

ManualSave(m) ==
    /\ node[m] = "save"
    /\ state' = SaveTrainingData(state, args[m])
    /\ node' = [node EXCEPT ![m] = "done"]
    /\ result' = [result EXCEPT ![m] = Return([success |-> TRUE,
                      message |-> args[m].outcome])]
    /\ UNCHANGED <<response, prediction, args>>

\* a run of run_intelligent_checker up to the await of the price: the
\* pending predictions are those without outcome that are old enough
CheckerRead ==
    /\ node[Checker] = "sleep"
    /\ state.runs < MaxCheckerRuns
    /\ IF "outcome" \notin DOMAIN state.predictions /\ state.ready
       THEN /\ args' = [args EXCEPT ![Checker] = [prediction |-> state.predictions]]
            /\ node' = [node EXCEPT ![Checker] = "price"]
       ELSE /\ args' = args
            /\ node' = node
    /\ state' = [state EXCEPT !.runs = @ + 1]
    /\ UNCHANGED <<response, prediction, result>>

CheckerPrice ==
    /\ node[Checker] = "price"
    /\ \E actual_price \in ActualPrices :
          IF actual_price = 0
          THEN /\ args' = args
               /\ node' = [node EXCEPT ![Checker] = "sleep"]
          ELSE /\ args' = [args EXCEPT ![Checker] =
                              Checked(args[Checker].prediction, actual_price)]
               /\ node' = [node EXCEPT ![Checker] = "update"]
    /\ UNCHANGED <<state, response, prediction, result>>

CheckerUpdate ==
    /\ node[Checker] = "update"
    /\ state' = UpdatePredictionOutcome(state, args[Checker])
    /\ node' = [node EXCEPT ![Checker] = "save"]
    /\ UNCHANGED <<response, prediction, args, result>>

CheckerSave ==
    /\ node[Checker] = "save"
    /\ state' = SaveTrainingData(state, args[Checker])
    /\ node' = [node EXCEPT ![Checker] = "sleep"]
    /\ UNCHANGED <<response, prediction, args, result>>

NextOutcome ==
    \/ CacheExpires
    \/ TimeframeElapses
    \/ \E m \in ManualChecks : ManualRead(m)
    \/ \E m \in ManualChecks : ManualPrice(m)
    \/ \E m \in ManualChecks : ManualUpdate(m)
    \/ \E m \in ManualChecks : ManualSave(m)
    \/ CheckerRead
    \/ CheckerPrice
    \/ CheckerUpdate
    \/ CheckerSave

SpecOutcome == InitOutcome /\ [][NextOutcome]_vars

(***************************************************************************)
(* Claims about the recorded outcome (checked under SpecOutcome)           *)
(***************************************************************************)
\* C28: once an outcome has been recorded for a prediction, no later
\* manual_check and no later run of the background checker overwrites that
\* outcome or writes a second training_data record for the same prediction,
\* under every interleaving of manual_check calls with checker runs (a
\* manual_check that reads the prediction from the cache included).
C28_OutcomeRecordedOnce ==
    [][("outcome" \in DOMAIN state.predictions) =>
           /\ state'.predictions = state.predictions
           /\ Len(state'.training_data) <= 1]_vars

(***************************************************************************)
(* Claims about the confidence inside predict_node (checked under Spec)    *)
(***************************************************************************)
\* the risk-reward ratios of the take-profit levels of a plan
C29_Schedule(plan) == [i \in 1..Len(plan.take_profits) |-> plan.take_profits[i].rr]

\* C29: calculate_confidence never returns a value below 40, and a value
\* below 50 only when market_condition is 'volatile'; consequently in
\* predict_node the schedule [2.0, 3.0] is used exactly when market_condition
\* is 'volatile', and the 'confidence < 50' test never changes the outcome
\* of assess_risk_level.
C29_LowConfidenceOnlyVolatile ==
    \A r \in Runs : PlanOf(r) =>
        LET plan       == prediction[r].value
            called     == GeneratePredictionWithQwen(state.ta_data, response[r].value)
            confidence == CalculateConfidence(state.ta_data, state.news_data, called)
        IN  /\ confidence >= 40
            /\ plan.confidence = confidence
            /\ confidence < 50 => plan.market_condition = "volatile"
            /\ C29_Schedule(plan) = <<20, 30>> <=> plan.market_condition = "volatile"
            /\ plan.risk_level
                  = AssessRiskLevel(state.ta_data, state.news_data, Max(confidence, 50))

\* a plan of a volatile market with a confidence below 50
C29_Witness ==
    \E r \in Runs :
        /\ PlanOf(r)
        /\ prediction[r].value.confidence < 50
        /\ prediction[r].value.market_condition = "volatile"
        /\ C29_Schedule(prediction[r].value) = <<20, 30>>
        /\ prediction[r].value.risk_level = "HIGH"

(***************************************************************************)
(* Claims about NEUTRAL plans of predict_node (checked under Spec)         *)
(***************************************************************************)
\* run r has returned a NEUTRAL plan without an error field
C30_NeutralPlan(r) == PlanOf(r) /\ prediction[r].value.direction = "NEUTRAL"

\* the entry calculate_optimal_entry selects for a BEARISH direction
C30_BearishEntry ==
    LET primary == Get(state.ta_data, "primary_analysis", EmptyDict)
    IN  CalculateOptimalEntry(Get(primary, "current_price", 0), "BEARISH",
                              Get(primary, "fibonacci", EmptyDict),
                              Get(primary, "order_blocks", <<>>),
                              Get(primary, "atr", 0),
                              Get(state.ta_data, "market_condition", "unknown"))

\* C30: a direction other than BULLISH (NEUTRAL in particular) is handled by
\* the bearish branches: when predict_node produces a NEUTRAL plan without
\* error, the entry selection uses the bearish candidates, take_profits is
\* non-empty with every price <= entry_price, and, when the upstream
\* prediction supplies no stop, stop_loss equals the current price.
C30_NeutralAsBearish ==
    \A r \in Runs : C30_NeutralPlan(r) =>
        LET plan    == prediction[r].value
            called  == GeneratePredictionWithQwen(state.ta_data, response[r].value)
            primary == Get(state.ta_data, "primary_analysis", EmptyDict)
        IN  /\ plan.entry_price = C30_BearishEntry.price
            /\ plan.entry_reason = C30_BearishEntry.reason
            /\ plan.take_profits # <<>>
            /\ \A i \in 1..Len(plan.take_profits) :
                  plan.take_profits[i].price <= plan.entry_price
            /\ Falsy(called, "stop_loss") =>
                  plan.stop_loss = Round2(Get(primary, "current_price", 0))

\* the entry and stop parts of C30 alone: a NEUTRAL plan takes the entry of
\* the bearish candidates, and its stop is the current price when the
\* response carries none
C30_EntryAndStop ==
    \A r \in Runs : C30_NeutralPlan(r) =>
        LET plan    == prediction[r].value
            called  == GeneratePredictionWithQwen(state.ta_data, response[r].value)
            primary == Get(state.ta_data, "primary_analysis", EmptyDict)
        IN  /\ plan.entry_price = C30_BearishEntry.price
            /\ plan.entry_reason = C30_BearishEntry.reason
            /\ plan.take_profits # <<>>
            /\ Falsy(called, "stop_loss") =>
                  plan.stop_loss = Round2(Get(primary, "current_price", 0))

\* a NEUTRAL plan without an upstream stop whose targets snapped to an
\* extension above the entry
C30_SnappedAboveEntry ==
    \E r \in Runs :
        /\ C30_NeutralPlan(r)
        /\ Falsy(response[r].value, "stop_loss")
        /\ \E i \in 1..Len(prediction[r].value.take_profits) :
              /\ prediction[r].value.take_profits[i].reason = "fib_1618"
              /\ prediction[r].value.take_profits[i].price
                     > prediction[r].value.entry_price

====
